---- MODULE Spec2Model ----
(***************************************************************************)
(* A model of the clawdo task store (src/src/db.ts, class TodoDatabase).   *)
(*                                                                         *)
(* The persisted state is the tasks table, the task_history table and the  *)
(* config key/value table.  Every store operation is an operator that      *)
(* computes, from the current state and its arguments, the outcome of the  *)
(* call: the error it throws ("ok" when it returns normally), the tables   *)
(* as the call leaves them, and the history rows it appends.  An action    *)
(* applies an outcome to the state.                                        *)
(*                                                                         *)
(* The text of a task is left out of the row; the validation of the value  *)
(* passed for it is kept, as the class of the value (valid, empty, too     *)
(* long).  project and context are kept as the class of the value stored.  *)
(* started_at, completed_at, notes, urgency, due_date, created_at, project *)
(* and context are written by the operations and read by none              *)
(* of their guards except addNote's length check; the inbox and the        *)
(* ordered reads use them.  A specification chooses in Init whether its    *)
(* runs retain them (columns).                                             *)
(* task_history is kept as its number of rows; the rows a call appends are *)
(* part of the call's outcome.                                             *)
(***************************************************************************)
EXTENDS Integers, Sequences, FiniteSets, TLC

(* ------------------------------ values -------------------------------- *)

\* null / undefined of the source (ids are >= 1, times are >= 0)
NULL == -1

\* an id that fails validateTaskId (not 8 characters of [a-z0-9])
MalformedId == 0

TaskStatus == {"proposed", "todo", "in_progress", "done", "archived"}
AutonomyLevel == {"auto", "auto-notify", "collab"}
AddedBy == {"human", "agent"}
Urgency == {"now", "soon", "whenever", "someday"}

\* program constants
ProposedLimit == 5
CooldownSec == 60
MaxFailures == 3
RetryCooldownSec == 3600
DaySec == 86400

\* A config value is NULL, the decimal string of a time t (kept as t), or the
\* text new Date().toISOString() gives at time t (kept as a number below NULL)
toISOString(t) == -2 - t
isISOString(v) == v < NULL

\* bounds of the model: tasks created, rows of history written and clock
\* ticks taken in a run of each specification, and the failures of one task
MaxTasks == 2
MaxHistory == 5
MaxTicks == 1
MaxAttempts == 4
\* SpecAutonomy
MaxTasksAutonomy == 1
MaxHistoryAutonomy == 5
MaxTicksAutonomy == 1
MaxAttemptsAutonomy == 4
\* SpecDeps
MaxTasksDeps == 4
MaxHistoryDeps == 7
\* SpecRate
MaxTasksRate == 6
MaxHistoryRate == 8
MaxTicksRate == 5
\* SpecCooldown
MaxTasksCooldown == 3
MaxTicksCooldown == 2
\* SpecColumns
MaxTasksColumns == 2
MaxHistoryColumns == 5
MaxTicksColumns == 1

\* the store of SpecRetry: tasks, history rows, and the hours the clock runs
MaxTasksRetry == 1
MaxHistoryRetry == 4
MaxHoursRetry == 4

\* the store of SpecRace: tasks and history rows
MaxTasksRace == 2
MaxHistoryRace == 4

\* the store of SpecNotes: tasks and history rows
MaxTasksNotes == 2
MaxHistoryNotes == 5

\* the store of SpecAudit: tasks and history rows
MaxTasksAudit == 1
MaxHistoryAudit == 4
\* AUDIT_BATCH_SIZE, the entries that make a full batch
AuditBatchSize == 2

\* the store of SpecBulk: tasks and history rows
MaxTasksBulk == 3
MaxHistoryBulk == 5

\* the store of SpecInbox: tasks, history rows, days of clock
MaxTasksInbox == 2
MaxHistoryInbox == 4
MaxDaysInbox == 2

\* the store of SpecTags: tasks and history rows
MaxTasksTags == 2
MaxHistoryTags == 4

\* the store of SpecSanitize: tasks, history rows, pieces of a text passed
MaxTasksSanitize == 2
MaxHistorySanitize == 4
MaxLenSanitize == 2

\* the store of SpecCrash: tasks and history rows
MaxTasksCrash == 2
MaxHistoryCrash == 4

\* the store of SpecUpdate: tasks and history rows
MaxTasksUpdate == 1
MaxHistoryUpdate == 5

\* the store of SpecPropose: tasks, windows of the cooldown on the clock
MaxTasksPropose == 6
MaxWindowsPropose == 4

\* the store of SpecNext: tasks, history rows, ticks of the clock
MaxTasksNext == 2
MaxHistoryNext == 3
MaxTicksNext == 1

\* LIMITS.notes, counted in notes rather than in characters
NotesLimit == 3

(* ------------------------------- state -------------------------------- *)

VARIABLES
    tasks,          \* tasks table: id -> row, for the ids that exist
    history,        \* task_history table: its number of rows
    config,         \* config table: key -> value, for the keys that exist
    now,            \* the wall clock, in seconds
    createdAs,      \* history variable: id -> the autonomy the task was created with
    confirmedEver,  \* history variable: ids on which confirmTask has succeeded
    lastAgentCreate,\* history variable: time of the last successful agent createTask
    rewritten,      \* history variable: <<operation, key>> of the config rows written
                    \* by setConfig, acquireLock and releaseLock since the last
                    \* successful agent createTask
    columns,        \* the columns among OptionalColumns that the run retains
    calls,          \* store handle -> the call it is making: its position in the
                    \* method, its argument, what it has read, and what the last
                    \* call returned
    txn,            \* the open transaction of a bulk call, if any: the rows it has
                    \* still to visit and the tables as it has written them
    audit           \* the audit trail: auditQueue, flushTimer, the appendFile calls
                    \* in flight, the audit file, _failed_audits, the handle's state

vars == <<tasks, history, config, now, createdAs, confirmedEver, lastAgentCreate, rewritten,
          columns, calls, txn, audit>>

\* two TodoDatabase objects opened on the same file
Handles == {"h1", "h2"}

\* a handle between two calls: task holds the row getTask returned, if any
Idle(op, id, result) == [pc |-> "idle", op |-> op, id |-> id, task |-> <<>>, result |-> result]

(* ----------------------------- audit trail ---------------------------- *)

\* the elements of a sequence
Range(q) == {q[i] : i \in DOMAIN q}

\* the trail of a store just opened. Entries are numbered as they are queued.
\* The trail is followed by the specifications of the audit trail only (the
\* others leave it out of the state).
NewAudit(followed) ==
    [followed |-> followed, open |-> TRUE, queue |-> <<>>, timer |-> FALSE,
     writes |-> {}, file |-> {}, failed |-> {}, count |-> 0]

\* db.ts:249-258: the timer is cleared and the queue, if any, is drained into
\* one asynchronous appendFile
flushAudit(A) ==
    IF A.queue = <<>> THEN [A EXCEPT !.timer = FALSE]
    ELSE [A EXCEPT !.timer = FALSE, !.queue = <<>>, !.writes = @ \cup {A.queue}]

\* variant: audit() flushes once the queue is longer than a batch
auditCallLate(A) ==
    LET entry == A.count + 1
        queued == [A EXCEPT !.queue = Append(@, entry), !.count = entry]
    IN
    IF ~A.followed THEN A
    ELSE IF Len(queued.queue) > AuditBatchSize THEN flushAudit(queued)
    ELSE [queued EXCEPT !.timer = TRUE]

\* db.ts:222-246: audit() queues the entry, then flushes a full batch or sets
\* the timer
auditCall(A) ==
    LET entry == A.count + 1
        queued == [A EXCEPT !.queue = Append(@, entry), !.count = entry]
    IN
    IF ~A.followed THEN A
    ELSE IF Len(queued.queue) >= AuditBatchSize THEN flushAudit(queued)
    ELSE [queued EXCEPT !.timer = TRUE]

\* variant: the fallback rows are written to task_history
fallbackInsertAsHistory(A, batch) ==
    [tasks |-> tasks, history |-> history + Len(batch), failed |-> A.failed]

\* db.ts:271-290 and 1168-1186: INSERT INTO _failed_audits for each line of the
\* batch; on a closed handle prepare throws and the catch drops the line.
\* The result is the tables of the database after the inserts.
fallbackInsert(A, batch) ==
    [tasks |-> tasks, history |-> history,
     failed |-> IF A.open THEN A.failed \cup Range(batch) ELSE A.failed]

\* columns that no guard of the lifecycle reads
OptionalColumns == {"startedAt", "completedAt", "notes", "urgency", "dueDate", "createdAt",
                    "project", "context"}

Ids == DOMAIN tasks

\* what a call does: the error thrown ("ok" if none), the tables after the
\* call, and the history rows appended by it
Outcome(err, t, c, h) == [err |-> err, tasks |-> t, config |-> c, hist |-> h]

\* a call that throws before it writes anything
Throw(err) == Outcome(err, tasks, config, <<>>)

\* addHistory with its notes argument; notes is a sequence of texts, empty
\* for null
HistoryNote(taskId, action, actor, notes) ==
    [taskId |-> taskId, action |-> action, actor |-> actor, notes |-> notes]

\* addHistory without notes
HistoryEntry(taskId, action, actor) == HistoryNote(taskId, action, actor, <<>>)

(* ------------------------------ helpers ------------------------------- *)

\* sanitize.ts validateTaskId
validateTaskId(id) == id # NULL /\ id # MalformedId

\* getTask(id) # null
hasTask(T, id) == validateTaskId(id) /\ id \in DOMAIN T

\* generateTaskId + the uniqueness loop of createTask: an id no task has.
\* Ids are opaque, so the next unused number stands for any fresh id.
freshId == Cardinality(DOMAIN tasks) + 1

getConfig(key) == IF key \in DOMAIN config THEN config[key] ELSE NULL

\* INSERT OR REPLACE INTO config
setConfigIn(c, key, value) == [k \in DOMAIN c \cup {key} |-> IF k = key THEN value ELSE c[k]]

countProposed == Cardinality({i \in Ids : tasks[i].status = "proposed" /\ tasks[i].addedBy = "agent"})

\* the loop of detectBlockerCycle: walk the blockedBy chain from current
RECURSIVE cycleWalk(_, _, _)
cycleWalk(taskId, current, visited) ==
    IF current = NULL THEN FALSE
    ELSE IF current = taskId THEN TRUE
    ELSE IF current \in visited THEN FALSE
    ELSE cycleWalk(taskId,
                   IF hasTask(tasks, current) THEN tasks[current].blockedBy ELSE NULL,
                   visited \cup {current})

detectBlockerCycle(taskId, blockerId) == cycleWalk(taskId, blockerId, {})

\* the blocker test shared by startTask and completeTask
blockerUnresolved(id) ==
    /\ tasks[id].blockedBy # NULL
    /\ hasTask(tasks, tasks[id].blockedBy)
    /\ tasks[tasks[id].blockedBy].status \notin {"done", "archived"}

(* ----------------------------- createTask ----------------------------- *)

\* the classes of value a caller can pass
TextClass == {"valid", "empty", "too_long"}
TagClass == {"none", "valid", "too_long", "bad_format"}

\* a tag value is taken by its class: "none" (null or the empty string),
\* "valid" (as +work or @home), "too_long" (over 50 characters),
\* "bad_format" (as work!: no prefix), "glob_only" (as +w ork!: the prefix and
\* one character of a-z0-9-, then other characters)

\* /^\+[a-z0-9-]+$/ and /^@[a-z0-9-]+$/
tagRegex(tag) == tag = "valid"

\* the CHECK of the column: project GLOB '+[a-z0-9-]*' AND length(project) <= 50
tagCheck(tag) == tag \in {"valid", "glob_only"}
DateClass == {"none", "valid", "bad_format", "not_a_date"}

\* variant: the confirmed option is honoured for the agent
initialStatusHonoursConfirmed(addedBy, confirmed) ==
    IF addedBy = "agent" /\ ~confirmed THEN "proposed" ELSE "todo"

\* db.ts:381: agents always create proposed tasks, humans todo tasks
initialStatus(addedBy, confirmed) == IF addedBy = "agent" THEN "proposed" ELSE "todo"

\* db.ts:357-362: the cap on the agent's active proposals
proposalLimitReached == countProposed >= ProposedLimit

\* parseInt of a config value: a decimal string yields its number; the text
\* of an ISO timestamp yields its year, a time long before the clock's origin
parseInt(v) == IF isISOString(v) THEN now - DaySec ELSE v

\* variant: the window is one second short
cooldownActiveShort ==
    /\ getConfig("last_agent_proposal") # NULL
    /\ now - parseInt(getConfig("last_agent_proposal")) < CooldownSec - 1

\* db.ts:365-374: less than the cooldown has passed since last_agent_proposal
cooldownActive ==
    /\ getConfig("last_agent_proposal") # NULL
    /\ now - parseInt(getConfig("last_agent_proposal")) < CooldownSec

\* a stored due date is the text passed: <<>> when there is none, else the
\* pair of its place in the order of strings (the day of the YYYY-MM-DD text
\* with that place) and the day it names.  A YYYY-MM-DD text sorts as its day.
isoDate(day) == <<day, day>>

\* options: [autonomy, urgency, project, context, dueDate, dueDay, blockedBy,
\* confirmed]
\* autonomy is "none" (not given) or the string passed; urgency is "none", a
\* level, or the class of the value passed; project, context and dueDate are
\* the class of the value passed, dueDay the day a valid dueDate names;
\* blockedBy is NULL or the id passed.
createTask(text, addedBy, options) ==
    LET id == freshId
        autonomy == IF options.autonomy = "none" THEN "collab" ELSE options.autonomy
        status == initialStatus(addedBy, options.confirmed)
        agentConfig == IF addedBy = "agent"
                       THEN setConfigIn(config, "last_agent_proposal", now)
                       ELSE config
        row == [status |-> status, autonomy |-> autonomy, addedBy |-> addedBy,
                blockedBy |-> options.blockedBy, attempts |-> 0, lastAttemptAt |-> NULL,
                startedAt |-> NULL, completedAt |-> NULL, notes |-> <<>>,
                urgency |-> IF options.urgency = "none" THEN "whenever" ELSE options.urgency,
                dueDate |-> IF options.dueDate = "none" THEN <<>> ELSE isoDate(options.dueDay),
                createdAt |-> now, project |-> options.project, context |-> options.context]
    IN
    IF text # "valid" THEN Throw("VALIDATION_ERROR")
    ELSE IF options.project = "too_long" \/ options.context = "too_long" THEN Throw("VALIDATION_ERROR")
    ELSE IF options.project # "none" /\ ~tagRegex(options.project) THEN Throw("INVALID_PROJECT_FORMAT")
    ELSE IF options.context # "none" /\ ~tagRegex(options.context) THEN Throw("INVALID_PROJECT_FORMAT")
    ELSE IF options.dueDate \in {"bad_format", "not_a_date"} THEN Throw("INVALID_STATUS")
    ELSE IF options.blockedBy # NULL /\ ~validateTaskId(options.blockedBy) THEN Throw("BLOCKER_NOT_FOUND")
    ELSE IF options.blockedBy # NULL /\ ~hasTask(tasks, options.blockedBy) THEN Throw("BLOCKER_NOT_FOUND")
    ELSE IF options.blockedBy # NULL /\ detectBlockerCycle(id, options.blockedBy) THEN Throw("CIRCULAR_DEPENDENCY")
    ELSE IF addedBy = "agent" /\ proposalLimitReached THEN Throw("RATE_LIMIT_EXCEEDED")
    ELSE IF addedBy = "agent" /\ cooldownActive THEN Throw("RATE_LIMIT_EXCEEDED")
    \* from here on last_agent_proposal has been written (db.ts:375)
    ELSE IF autonomy \notin AutonomyLevel THEN Outcome("INVALID_AUTONOMY", tasks, agentConfig, <<>>)
    ELSE IF options.urgency = "invalid" THEN Outcome("INVALID_URGENCY", tasks, agentConfig, <<>>)
    ELSE Outcome("ok", tasks @@ (id :> row), agentConfig, <<HistoryEntry(id, "created", addedBy)>>)

(* ----------------------------- updateTask ----------------------------- *)

\* variant: attempts is on the allowlist
allowedFieldsAndAttempts ==
    {"text", "status", "urgency", "project", "context", "due_date",
     "blocked_by", "notes", "started_at", "completed_at", "attempts"}

\* updateTask's allowlist of column names
allowedFields == {"text", "status", "urgency", "project", "context", "due_date",
                  "blocked_by", "notes", "started_at", "completed_at"}

\* key.replace(/([A-Z])/g, '_$1').toLowerCase(), on the keys of Task
snakeKey(key) ==
    CASE key = "dueDate" -> "due_date"
      [] key = "blockedBy" -> "blocked_by"
      [] key = "addedBy" -> "added_by"
      [] key = "createdAt" -> "created_at"
      [] key = "startedAt" -> "started_at"
      [] key = "completedAt" -> "completed_at"
      [] key = "lastAttemptAt" -> "last_attempt_at"
      [] OTHER -> key

(* ---------------------------- the sanitizer ---------------------------- *)

\* A text is a sequence of pieces. A piece is a run of characters the
\* sanitizer treats as one: "NUL" a control character, " " a space, "a" a
\* word, "SYSTEM PROMPT" and "SEND TOKEN" texts that the first and the last
\* of the injection patterns match, "[FILTERED]" the replacement, and the
\* whole notes "text", "note" and "[Auto-failed 3 times]" of the other
\* operations. The length of a text is its number of pieces.

\* the pieces removed as control characters
ControlChars == {"NUL"}

stripControlChars(text) == SelectSeq(text, LAMBDA c : c \notin ControlChars)

\* the texts matched, in the order the patterns are applied
INJECTION_PATTERNS == <<"SYSTEM PROMPT", "SEND TOKEN">>

\* \b at the start of a pattern, before piece i: every pattern starts with a
\* word character, so the boundary is there at the start of the text and
\* after a piece that ends in a character that is not one
wordBoundary(text, i) ==
    i = 1 \/ text[i - 1] \in ControlChars \cup {" ", "[FILTERED]", "[Auto-failed 3 times]"}

\* cleaned.replace(pattern, '[FILTERED]'): every match in the text as it is
\* before the replacement
replace(text, pattern) ==
    [i \in DOMAIN text |->
        IF text[i] = pattern /\ wordBoundary(text, i) THEN "[FILTERED]" ELSE text[i]]

RECURSIVE stripFrom(_, _)
stripFrom(text, k) ==
    IF k > Len(INJECTION_PATTERNS) THEN text
    ELSE stripFrom(replace(text, INJECTION_PATTERNS[k]), k + 1)

stripInjectionPatterns(text) == stripFrom(text, 1)

\* the value sanitizeNotes returns; it throws when that value is longer than
\* LIMITS.notes, which its callers test
sanitizeNotes(notes) == stripInjectionPatterns(stripControlChars(notes))

\* updates: a function from the keys given to their values; the value of
\* notes is the notes to store, which sanitizeNotes rejects beyond LIMITS.notes
updateTask(id, updates, actor) ==
    LET given == DOMAIN updates
        applied == {k \in given : snakeKey(k) \in allowedFields}
        old == tasks[id]
        \* SET column = ? for each key applied
        value(f) == IF f = "notes" THEN sanitizeNotes(updates[f]) ELSE updates[f]
        new == [f \in DOMAIN old |-> IF f \in applied THEN value(f) ELSE old[f]]
    IN
    IF ~validateTaskId(id) THEN Throw("TASK_NOT_FOUND")
    ELSE IF ~hasTask(tasks, id) THEN Throw("TASK_NOT_FOUND")
    ELSE IF "autonomy" \in given THEN Throw("PERMISSION_DENIED")
    \* sanitizeText / sanitizeNotes / sanitizeTag throw on a bad value
    ELSE IF "text" \in applied /\ updates["text"] # "valid" THEN Throw("VALIDATION_ERROR")
    ELSE IF "notes" \in applied /\ Len(sanitizeNotes(updates["notes"])) > NotesLimit
         THEN Throw("VALIDATION_ERROR")
    ELSE IF \E k \in {"project", "context"} \cap applied : updates[k] = "too_long" THEN Throw("VALIDATION_ERROR")
    ELSE IF applied = {} THEN Outcome("ok", tasks, config, <<>>)
    \* the UPDATE statement: CHECK and FOREIGN KEY constraints of the table
    ELSE IF new.status \notin TaskStatus THEN Throw("INVALID_STATUS")
    ELSE IF "urgency" \in applied /\ new.urgency \notin Urgency THEN Throw("INVALID_URGENCY")
    \* wrapSQLiteError gives the CHECK failure of a tag column back as it is
    ELSE IF \E k \in {"project", "context"} \cap applied : new[k] # "none" /\ ~tagCheck(new[k])
         THEN Throw("SQLITE_CONSTRAINT_CHECK")
    ELSE IF new.blockedBy # NULL /\ new.blockedBy \notin Ids THEN Throw("BLOCKER_NOT_FOUND")
    ELSE Outcome("ok", [tasks EXCEPT ![id] = new], config, <<HistoryEntry(id, "updated", actor)>>)

(* ------------------------- lifecycle operations ----------------------- *)

\* variant: startTask leaves started_at as it finds it
startTaskUnstamped(id, actor) ==
    IF ~hasTask(tasks, id) THEN Throw("TASK_NOT_FOUND")
    ELSE IF tasks[id].status = "in_progress" THEN Throw("TASK_ALREADY_IN_PROGRESS")
    ELSE IF tasks[id].status # "todo" THEN Throw("INVALID_STATUS_TRANSITION")
    ELSE IF blockerUnresolved(id) THEN Throw("TASK_BLOCKED")
    ELSE Outcome("ok", [tasks EXCEPT ![id].status = "in_progress"], config,
                 <<HistoryEntry(id, "started", actor)>>)

startTask(id, actor) ==
    IF ~hasTask(tasks, id) THEN Throw("TASK_NOT_FOUND")
    ELSE IF tasks[id].status = "in_progress" THEN Throw("TASK_ALREADY_IN_PROGRESS")
    ELSE IF tasks[id].status # "todo" THEN Throw("INVALID_STATUS_TRANSITION")
    ELSE IF blockerUnresolved(id) THEN Throw("TASK_BLOCKED")
    ELSE Outcome("ok", [tasks EXCEPT ![id].status = "in_progress", ![id].startedAt = now], config,
                 <<HistoryEntry(id, "started", actor)>>)

\* variant: the statement clears the completed rows' own blocked_by
unblockDependentsById(T, done) ==
    [i \in DOMAIN T |-> IF i \in done THEN [T[i] EXCEPT !.blockedBy = NULL] ELSE T[i]]

\* UPDATE tasks SET blocked_by = NULL WHERE blocked_by IN done
unblockDependents(T, done) ==
    [i \in DOMAIN T |-> IF T[i].blockedBy \in done THEN [T[i] EXCEPT !.blockedBy = NULL] ELSE T[i]]

\* variant: completeTask does not test for a done task
completeTaskAgain(id, actor) ==
    IF ~hasTask(tasks, id) THEN Throw("TASK_NOT_FOUND")
    ELSE IF tasks[id].status = "proposed" THEN Throw("TASK_NOT_CONFIRMED")
    ELSE IF blockerUnresolved(id) THEN Throw("TASK_BLOCKED")
    ELSE Outcome("ok",
                 unblockDependents([tasks EXCEPT ![id].status = "done", ![id].completedAt = now], {id}),
                 config, <<HistoryEntry(id, "completed", actor)>>)

completeTask(id, actor) ==
    IF ~hasTask(tasks, id) THEN Throw("TASK_NOT_FOUND")
    ELSE IF tasks[id].status = "proposed" THEN Throw("TASK_NOT_CONFIRMED")
    ELSE IF tasks[id].status = "done" THEN Throw("TASK_ALREADY_DONE")
    ELSE IF blockerUnresolved(id) THEN Throw("TASK_BLOCKED")
    ELSE Outcome("ok",
                 unblockDependents([tasks EXCEPT ![id].status = "done", ![id].completedAt = now], {id}),
                 config, <<HistoryEntry(id, "completed", actor)>>)

\* variant: the demotion comes one failure late
maxAttemptsReachedLate(newAttempts) == newAttempts > MaxFailures

\* db.ts:731: the attempt that demotes the task to collab
maxAttemptsReached(newAttempts) == newAttempts >= MaxFailures

\* variant: the notes are stored whole
truncateNever(notes) == notes

\* text.substring(0, LIMITS.notes), on notes
truncate(notes) == IF Len(notes) > NotesLimit THEN SubSeq(notes, 1, NotesLimit) ELSE notes

\* variant: failTask leaves the status as it finds it
failTaskKeepsStatus(id, reason) ==
    LET newAttempts == tasks[id].attempts + 1 IN
    IF ~hasTask(tasks, id) THEN Throw("TASK_NOT_FOUND")
    ELSE Outcome("ok", [tasks EXCEPT ![id].attempts = newAttempts, ![id].lastAttemptAt = now],
                 config, <<HistoryNote(id, "failed", "agent", <<reason>>)>>)

failTask(id, reason) ==
    LET newAttempts == tasks[id].attempts + 1 IN
    IF ~hasTask(tasks, id) THEN Throw("TASK_NOT_FOUND")
    ELSE IF maxAttemptsReached(newAttempts)
    THEN Outcome("ok", [tasks EXCEPT ![id].status = "todo", ![id].autonomy = "collab",
                                      ![id].attempts = newAttempts, ![id].lastAttemptAt = now,
                                      ![id].notes = truncate(<<"[Auto-failed 3 times]">> \o @)],
                 config, <<HistoryNote(id, "failed", "agent", <<reason>>)>>)
    ELSE Outcome("ok", [tasks EXCEPT ![id].status = "todo",
                                      ![id].attempts = newAttempts, ![id].lastAttemptAt = now],
                 config, <<HistoryNote(id, "failed", "agent", <<reason>>)>>)

archiveTask(id, actor) ==
    IF ~hasTask(tasks, id) THEN Throw("TASK_NOT_FOUND")
    ELSE IF tasks[id].status = "archived" THEN Throw("TASK_ALREADY_ARCHIVED")
    ELSE Outcome("ok", [tasks EXCEPT ![id].status = "archived"], config,
                 <<HistoryEntry(id, "archived", actor)>>)

unarchiveTask(id, actor) ==
    IF ~hasTask(tasks, id) THEN Throw("TASK_NOT_FOUND")
    ELSE Outcome("ok", [tasks EXCEPT ![id].status = "todo"], config,
                 <<HistoryEntry(id, "unarchived", actor)>>)

confirmTask(id, actor) ==
    IF ~hasTask(tasks, id) THEN Throw("TASK_NOT_FOUND")
    ELSE IF tasks[id].status # "proposed" THEN Throw("INVALID_STATUS_TRANSITION")
    ELSE Outcome("ok", [tasks EXCEPT ![id].status = "todo"], config,
                 <<HistoryEntry(id, "confirmed", actor)>>)

\* variant: rejectTask drops the reason
rejectTaskUnrecorded(id, actor, reason) ==
    IF ~hasTask(tasks, id) THEN Throw("TASK_NOT_FOUND")
    ELSE IF tasks[id].status # "proposed" THEN Throw("INVALID_STATUS_TRANSITION")
    ELSE Outcome("ok", [tasks EXCEPT ![id].status = "archived"], config,
                 <<HistoryEntry(id, "rejected", actor)>>)

\* reason: "undefined" when not given, "" or a text; reason || null is stored
rejectTask(id, actor, reason) ==
    IF ~hasTask(tasks, id) THEN Throw("TASK_NOT_FOUND")
    ELSE IF tasks[id].status # "proposed" THEN Throw("INVALID_STATUS_TRANSITION")
    ELSE Outcome("ok", [tasks EXCEPT ![id].status = "archived"], config,
                 <<HistoryNote(id, "rejected", actor,
                               IF reason \in {"undefined", ""} THEN <<>> ELSE <<reason>>)>>)

blockTask(id, blockerId, actor) ==
    IF ~validateTaskId(id) \/ ~validateTaskId(blockerId) THEN Throw("TASK_NOT_FOUND")
    ELSE IF ~hasTask(tasks, id) THEN Throw("TASK_NOT_FOUND")
    ELSE IF ~hasTask(tasks, blockerId) THEN Throw("BLOCKER_NOT_FOUND")
    ELSE IF tasks[blockerId].status \in {"done", "archived"} THEN Throw("BLOCKER_ALREADY_DONE")
    ELSE IF detectBlockerCycle(id, blockerId) THEN Throw("CIRCULAR_DEPENDENCY")
    ELSE Outcome("ok", [tasks EXCEPT ![id].blockedBy = blockerId], config,
                 <<HistoryNote(id, "blocked", actor, <<"Blocked by", blockerId>>)>>)

unblockTask(id, actor) ==
    IF ~hasTask(tasks, id) THEN Throw("TASK_NOT_FOUND")
    ELSE Outcome("ok", [tasks EXCEPT ![id].blockedBy = NULL], config,
                 <<HistoryEntry(id, "unblocked", actor)>>)

\* note: the class of the note; "too_long" is a note that sanitizeNotes
\* rejects. The stored notes are the previous notes followed by the
\* date-stamped note.
addNote(id, note, actor) ==
    LET updatedNotes == tasks[id].notes \o <<"note">> IN
    IF ~hasTask(tasks, id) THEN Throw("TASK_NOT_FOUND")
    ELSE IF note # "valid" THEN Throw("VALIDATION_ERROR")
    ELSE IF Len(updatedNotes) > NotesLimit THEN Throw("TEXT_TOO_LONG")
    ELSE Outcome("ok", [tasks EXCEPT ![id].notes = updatedNotes], config,
                 <<HistoryNote(id, "note_added", actor, <<note>>)>>)

(* ------------------------------ canRetry ------------------------------ *)

\* the first ten characters of a timestamp: its calendar day
dayOf(t) == t \div DaySec

\* last_attempt_at < datetime('now', '-1 hour'), as SQLite compares the two
\* TEXT values: last_attempt_at is written by toISOString ('2026-01-02T03:04:05.678Z')
\* and datetime() yields '2026-01-02 03:04:05', so the strings differ at the
\* eleventh character ('T' > ' ') whenever the days are equal.
olderThanCooldown(lastAttemptAt) == dayOf(lastAttemptAt) < dayOf(now - RetryCooldownSec)

\* variant: the statement does not test the status
retryEligibleAnyStatus(id) ==
    /\ validateTaskId(id)
    /\ id \in Ids
    /\ tasks[id].attempts < MaxFailures
    /\ (tasks[id].lastAttemptAt = NULL \/ olderThanCooldown(tasks[id].lastAttemptAt))

retryEligible(id) ==
    /\ validateTaskId(id)
    /\ id \in Ids
    /\ tasks[id].status = "todo"
    /\ tasks[id].attempts < MaxFailures
    /\ (tasks[id].lastAttemptAt = NULL \/ olderThanCooldown(tasks[id].lastAttemptAt))

\* err is "true" / "false": the value canRetry returns
canRetry(id) ==
    IF retryEligible(id)
    THEN Outcome("true", [tasks EXCEPT ![id].status = "in_progress"], config, <<>>)
    ELSE Outcome("false", tasks, config, <<>>)

(* --------------------------- bulk operations -------------------------- *)

\* filters: [status: a set of statuses or {} when not given,
\*           autonomy: a level or "none" when not given], and when given
\*           urgency: a level, addedBy, blocked: a boolean, ready: a boolean
listTasks(filters) ==
    {i \in Ids : /\ (filters.status = {} \/ tasks[i].status \in filters.status)
                 /\ (filters.autonomy = "none" \/ tasks[i].autonomy = filters.autonomy)
                 /\ ("urgency" \in DOMAIN filters => tasks[i].urgency = filters.urgency)
                 /\ ("addedBy" \in DOMAIN filters => tasks[i].addedBy = filters.addedBy)
                 /\ ("blocked" \in DOMAIN filters =>
                        (filters.blocked <=> tasks[i].blockedBy # NULL))
                 /\ ("ready" \in DOMAIN filters /\ filters.ready =>
                        tasks[i].status \in {"todo", "in_progress"} /\ tasks[i].blockedBy = NULL)}

\* variant: the CASE of the ORDER BY ranks someday first
urgencyRankReversed(urgency) ==
    CASE urgency = "now" -> 3
      [] urgency = "soon" -> 2
      [] urgency = "whenever" -> 1
      [] urgency = "someday" -> 0

\* CASE urgency WHEN 'now' THEN 0 WHEN 'soon' THEN 1 WHEN 'whenever' THEN 2
\* WHEN 'someday' THEN 3 END
urgencyRank(urgency) ==
    CASE urgency = "now" -> 0
      [] urgency = "soon" -> 1
      [] urgency = "whenever" -> 2
      [] urgency = "someday" -> 3

\* ORDER BY CASE urgency ... END, created_at ASC: row i sorts before row j
sortsBefore(i, j) ==
    \/ urgencyRank(tasks[i].urgency) < urgencyRank(tasks[j].urgency)
    \/ /\ urgencyRank(tasks[i].urgency) = urgencyRank(tasks[j].urgency)
       /\ tasks[i].createdAt < tasks[j].createdAt

\* the orders in which the query can return the rows S: rows with equal
\* urgency and created_at come in any order
listOrders(S) ==
    {q \in [1..Cardinality(S) -> S] :
        /\ \A m \in S : \E k \in DOMAIN q : q[k] = m
        /\ \A k \in DOMAIN q : \A l \in DOMAIN q : k < l => ~sortsBefore(q[l], q[k])}

\* options: [auto: a boolean]; the results the call can give: the ids of the
\* rows that LIMIT 1 can keep, or NULL when the query matches no row
getNextTask(options) ==
    LET match == {i \in Ids : /\ tasks[i].status = "todo"
                              /\ tasks[i].blockedBy = NULL
                              /\ (options.auto => tasks[i].autonomy \in {"auto", "auto-notify"})}
    IN IF match = {} THEN {NULL}
       ELSE {i \in match : \A j \in match : ~sortsBefore(j, i)}

(* ------------------------------ the inbox ----------------------------- *)

\* the buckets of the inbox, as sets of task ids.  The meta block (the
\* auto_execution_enabled flag and the count of recent completions) holds no
\* task and is left out.
generateInbox ==
    LET allActiveTasks == listTasks([status |-> {"todo", "in_progress", "proposed"},
                                     autonomy |-> "none"])
        \* new Date().toISOString().split('T')[0]
        today == dayOf(now)
        staleThreshold == now - DaySec
        active(i) == tasks[i].status \in {"todo", "in_progress"}
    IN [proposed |-> {i \in allActiveTasks : tasks[i].status = "proposed"},
        urgent |-> {i \in allActiveTasks : tasks[i].urgency = "now" /\ active(i)},
        \* task.dueDate < now compares the two texts
        overdue |-> {i \in allActiveTasks :
                        /\ tasks[i].dueDate # <<>>
                        /\ tasks[i].dueDate[1] < today
                        /\ active(i)},
        blocked |-> {i \in allActiveTasks : tasks[i].blockedBy # NULL /\ active(i)},
        stale |-> {i \in allActiveTasks :
                      /\ tasks[i].status = "in_progress"
                      /\ tasks[i].startedAt # NULL
                      /\ tasks[i].startedAt < staleThreshold},
        autoReady |-> {i \in allActiveTasks :
                          /\ tasks[i].status = "todo"
                          /\ tasks[i].blockedBy = NULL
                          /\ tasks[i].autonomy = "auto"},
        autoNotifyReady |-> {i \in allActiveTasks :
                                /\ tasks[i].status = "todo"
                                /\ tasks[i].blockedBy = NULL
                                /\ tasks[i].autonomy = "auto-notify"}]

RECURSIVE historyFor(_, _, _)
historyFor(S, action, actor) ==
    IF S = {} THEN <<>>
    ELSE LET m == CHOOSE x \in S : \A y \in S : x <= y
         IN <<HistoryEntry(m, action, actor)>> \o historyFor(S \ {m}, action, actor)

bulkComplete(filters, actor) ==
    LET hit == {i \in listTasks(filters) : tasks[i].status \in {"todo", "in_progress"}}
        marked == [i \in Ids |-> IF i \in hit
                                 THEN [tasks[i] EXCEPT !.status = "done", !.completedAt = now]
                                 ELSE tasks[i]]
    IN Outcome("ok", unblockDependents(marked, hit), config, historyFor(hit, "bulk_completed", actor))

bulkArchive(filters, actor) ==
    LET hit == {i \in listTasks(filters) : tasks[i].status # "archived"}
    IN Outcome("ok",
               [i \in Ids |-> IF i \in hit THEN [tasks[i] EXCEPT !.status = "archived"] ELSE tasks[i]],
               config, historyFor(hit, "bulk_archived", actor))

(* ---------------------------- config, lock ---------------------------- *)

setConfig(key, value) == Outcome("ok", tasks, setConfigIn(config, key, value), <<>>)

\* UPDATE config SET value = ? WHERE key = ? AND value IS NULL
acquireLock(lockId) ==
    IF lockId \in DOMAIN config /\ config[lockId] = NULL
    THEN Outcome("true", tasks, [config EXCEPT ![lockId] = toISOString(now)], <<>>)
    ELSE Outcome("false", tasks, config, <<>>)

\* UPDATE config SET value = NULL WHERE key = ?
releaseLock(lockId) ==
    IF lockId \in DOMAIN config
    THEN Outcome("ok", tasks, [config EXCEPT ![lockId] = NULL], <<>>)
    ELSE Outcome("ok", tasks, config, <<>>)

(* ------------------------------ actions ------------------------------- *)

\* the rows of T with the columns the run does not retain left empty
retained(T) ==
    [i \in DOMAIN T |->
        [T[i] EXCEPT !.startedAt = IF "startedAt" \in columns THEN @ ELSE NULL,
                     !.completedAt = IF "completedAt" \in columns THEN @ ELSE NULL,
                     !.notes = IF "notes" \in columns THEN @ ELSE <<>>,
                     !.urgency = IF "urgency" \in columns THEN @ ELSE "whenever",
                     !.dueDate = IF "dueDate" \in columns THEN @ ELSE <<>>,
                     !.createdAt = IF "createdAt" \in columns THEN @ ELSE NULL,
                     !.project = IF "project" \in columns THEN @ ELSE "none",
                     !.context = IF "context" \in columns THEN @ ELSE "none"]]

\* the state after a call with outcome r
Apply(r) ==
    /\ tasks' = retained(r.tasks)
    /\ config' = r.config
    /\ history' = history + Len(r.hist)
    /\ now' = now
    /\ columns' = columns
    /\ calls' = calls
    /\ txn' = txn
    \* every method that writes history calls audit() once, after its writes
    /\ audit' = IF Len(r.hist) > 0 THEN auditCall(audit) ELSE audit

\* a call that touches no history variable
Call(r) ==
    /\ Apply(r)
    /\ UNCHANGED <<createdAs, confirmedEver, lastAgentCreate, rewritten>>

CreateTask(text, addedBy, options) ==
    LET r == createTask(text, addedBy, options) IN
    /\ Apply(r)
    /\ createdAs' = IF r.err = "ok" THEN createdAs @@ (freshId :> r.tasks[freshId].autonomy) ELSE createdAs
    /\ lastAgentCreate' = IF r.err = "ok" /\ addedBy = "agent" THEN now ELSE lastAgentCreate
    \* rewritten keeps the writes made since the last successful agent createTask
    /\ rewritten' = IF r.err = "ok" /\ addedBy = "agent" THEN {} ELSE rewritten
    /\ UNCHANGED confirmedEver

UpdateTask(id, updates, actor) == Call(updateTask(id, updates, actor))

StartTask(id, actor) == Call(startTask(id, actor))

CompleteTask(id, actor) == Call(completeTask(id, actor))

FailTask(id, reason) == Call(failTask(id, reason))

ArchiveTask(id, actor) == Call(archiveTask(id, actor))

UnarchiveTask(id, actor) == Call(unarchiveTask(id, actor))

ConfirmTask(id, actor) ==
    LET r == confirmTask(id, actor) IN
    /\ Apply(r)
    /\ confirmedEver' = IF r.err = "ok" THEN confirmedEver \cup {id} ELSE confirmedEver
    /\ UNCHANGED <<createdAs, lastAgentCreate, rewritten>>

RejectTask(id, actor, reason) == Call(rejectTask(id, actor, reason))

BlockTask(id, blockerId, actor) == Call(blockTask(id, blockerId, actor))

UnblockTask(id, actor) == Call(unblockTask(id, actor))

AddNote(id, note, actor) == Call(addNote(id, note, actor))

CanRetry(id) == Call(canRetry(id))

BulkComplete(filters, actor) == Call(bulkComplete(filters, actor))

BulkArchive(filters, actor) == Call(bulkArchive(filters, actor))

\* a call that may write a config row: rewritten records the write
ConfigCall(op, key, r) ==
    /\ Apply(r)
    /\ rewritten' = IF r.config # config \/ op = "setConfig"
                     THEN rewritten \cup {<<op, key>>} ELSE rewritten
    /\ UNCHANGED <<createdAs, confirmedEver, lastAgentCreate>>

SetConfig(key, value) == ConfigCall("setConfig", key, setConfig(key, value))

AcquireLock(lockId) == ConfigCall("acquireLock", lockId, acquireLock(lockId))

ReleaseLock(lockId) == ConfigCall("releaseLock", lockId, releaseLock(lockId))

\* time passes
Tick(d) ==
    /\ now' = now + d
    /\ UNCHANGED <<tasks, history, config, createdAs, confirmedEver, lastAgentCreate, rewritten,
                   columns, calls, txn, audit>>

Init ==
    /\ tasks = <<>>
    /\ history = 0
    \* migrateV1: heartbeat_lock is NULL; schema_version and
    \* auto_execution_enabled hold a value that no modelled rule reads
    /\ config = [k \in {"schema_version", "heartbeat_lock", "auto_execution_enabled"} |->
                    IF k = "heartbeat_lock" THEN NULL ELSE 1]
    /\ now = 0
    /\ createdAs = <<>>
    /\ confirmedEver = {}
    /\ lastAgentCreate = NULL
    /\ rewritten = {}
    /\ columns = {}
    /\ calls = [h \in Handles |-> Idle("none", NULL, "none")]
    /\ txn = <<>>
    /\ audit = NewAudit(FALSE)

(* --------------------- the store, one task at a time ------------------ *)

Options(aut, blk) ==
    [autonomy |-> aut, urgency |-> "valid", project |-> "none", context |-> "none",
     dueDate |-> "none", dueDay |-> 0, blockedBy |-> blk, confirmed |-> FALSE]

\* ids a caller can pass: the tasks that exist, an id of no task, a malformed id
AnyId == Ids \cup {Cardinality(Ids) + 1, MalformedId}

Filters == [status : {{}, {"todo"}, {"proposed"}}, autonomy : {"none", "auto"}]

\* the updates a caller can pass
Updates ==
    [{"autonomy"} -> {"auto"}]
      \cup [{"status"} -> TaskStatus \cup {"bogus"}]
      \cup [{"blockedBy"} -> Ids \cup {NULL, MalformedId}]
      \cup [{"text"} -> {"valid", "too_long"}]
      \cup [{"attempts"} -> {0}]
      \cup {<<>>}

\* one tick of the clock of Spec: long enough for the retry cooldown to pass
\* whatever the time of day
RetryTick == DaySec + RetryCooldownSec

\* One call of the store, or a tick of the clock. No call starts once
\* maxHistory rows of history are written. The actor of a call is recorded in
\* the history row the call appends and decides nothing else, so one operation
\* draws it from both and the others pass "human".
\* No statement of these operations tells auto-notify from auto, so tasks are
\* created with no autonomy given (collab) or with auto.
StoreStep(maxTasks, maxHistory, maxAttempts, maxTicks) ==
    \/ /\ history < maxHistory
       /\ Cardinality(Ids) < maxTasks
       /\ \E a \in AddedBy, aut \in {"none", "auto"}, blk \in Ids \cup {NULL},
             confirmed \in BOOLEAN :
             CreateTask("valid", a, [Options(aut, blk) EXCEPT !.confirmed = confirmed])
    \/ history < maxHistory /\ \E id \in Ids, u \in Updates : UpdateTask(id, u, "human")
    \/ history < maxHistory /\ \E id \in AnyId, actor \in AddedBy : StartTask(id, actor)
    \/ history < maxHistory /\ \E id \in Ids : CompleteTask(id, "human")
    \/ history < maxHistory /\ \E id \in Ids : tasks[id].attempts < maxAttempts /\ FailTask(id, "reason")
    \/ history < maxHistory /\ \E id \in Ids : ArchiveTask(id, "human")
    \/ history < maxHistory /\ \E id \in Ids : UnarchiveTask(id, "human")
    \/ history < maxHistory /\ \E id \in Ids : ConfirmTask(id, "human")
    \/ history < maxHistory /\ \E id \in Ids : RejectTask(id, "human", "reason")
    \/ history < maxHistory /\ \E id \in Ids, b \in Ids : BlockTask(id, b, "human")
    \/ history < maxHistory /\ \E id \in Ids : UnblockTask(id, "human")
    \/ history < maxHistory /\ \E id \in Ids, note \in {"valid", "too_long"} : AddNote(id, note, "human")
    \/ history < maxHistory /\ \E f \in Filters : BulkComplete(f, "human")
    \/ history < maxHistory /\ \E f \in Filters : BulkArchive(f, "human")
    \/ \E id \in Ids : CanRetry(id)
    \/ now < maxTicks * RetryTick /\ Tick(RetryTick)

Next == StoreStep(MaxTasks, MaxHistory, MaxAttempts, MaxTicks)

Spec == Init /\ [][Next]_vars

(* ===================== one task's life: SpecAutonomy ================== *)

NextAutonomy ==
    StoreStep(MaxTasksAutonomy, MaxHistoryAutonomy, MaxAttemptsAutonomy, MaxTicksAutonomy)

SpecAutonomy == Init /\ [][NextAutonomy]_vars

\* updates that name autonomy, alone or with another field
AutonomyUpdates ==
    [{"autonomy"} -> AutonomyLevel] \cup {[autonomy |-> "auto", status |-> "done"]}

\* C1: a task's autonomy is the value it was created with until failTask
\* brings its attempts to 3 and is collab from then on; updateTask with an
\* autonomy field fails with PERMISSION_DENIED and changes nothing.
C1_AutonomyOnlyDemoted ==
    /\ \A id \in Ids :
          tasks[id].autonomy = IF tasks[id].attempts >= MaxFailures THEN "collab" ELSE createdAs[id]
    /\ \A id \in Ids, u \in AutonomyUpdates :
          updateTask(id, u, "agent") = Throw("PERMISSION_DENIED")

\* a task created auto has failed three times and reads collab
C1_Witness ==
    \E id \in Ids :
        /\ createdAs[id] = "auto"
        /\ tasks[id].attempts = MaxFailures
        /\ tasks[id].autonomy = "collab"

\* C2: createTask by the agent creates the task proposed whatever the
\* confirmed option, createTask by a human creates it todo.
C2_InitialStatus ==
    \A a \in AddedBy, confirmed \in BOOLEAN :
        LET r == createTask("valid", a, [Options("auto", NULL) EXCEPT !.confirmed = confirmed]) IN
        r.err = "ok" =>
            /\ DOMAIN r.tasks = Ids \cup {freshId}
            /\ r.tasks[freshId].status = IF a = "agent" THEN "proposed" ELSE "todo"
            /\ r.tasks[freshId].addedBy = a

\* the agent's task exists as created, and a further agent createTask with
\* confirmed set succeeds
C2_Witness ==
    /\ \E i \in Ids : tasks[i].addedBy = "agent" /\ tasks[i].status = "proposed"
    /\ history = Cardinality(Ids)
    /\ createTask("valid", "agent", [Options("auto", NULL) EXCEPT !.confirmed = TRUE]).err = "ok"

(* ======================== claims checked under Spec =================== *)

\* C3: an agent's task is todo, in_progress or done only after confirmTask
\* has been applied to it.
C3_ProposalNeedsConfirm ==
    \A id \in Ids :
        tasks[id].addedBy = "agent" /\ tasks[id].status \in {"todo", "in_progress", "done"}
            => id \in confirmedEver

\* the edges of the state graph
StatusEdges ==
    { <<"proposed", "todo">>, <<"proposed", "archived">>, <<"todo", "in_progress">>,
      <<"in_progress", "done">>, <<"in_progress", "todo">>, <<"todo", "archived">>,
      <<"in_progress", "archived">>, <<"archived", "todo">> }

\* C4: every change of a task's status is an edge of the state graph.
C4_OnlyGraphEdges ==
    [][\A id \in Ids :
          tasks'[id].status # tasks[id].status
              => <<tasks[id].status, tasks'[id].status>> \in StatusEdges]_vars

\* C5: no operation moves a task to in_progress or to done while its
\* blockedBy references a task that is neither done nor archived.
C5_NoProgressWhileBlocked ==
    [][\A id \in Ids :
          /\ tasks'[id].status # tasks[id].status
          /\ tasks'[id].status \in {"in_progress", "done"}
          => ~blockerUnresolved(id)]_vars

\* the tasks reached from id by following blockedBy one or more times
RECURSIVE blockers(_, _)
blockers(id, seen) ==
    LET b == tasks[id].blockedBy IN
    IF b = NULL \/ b \notin Ids \/ b \in seen THEN seen
    ELSE blockers(b, seen \cup {b})

\* C6: the blockedBy relation is acyclic in every reachable state.
C6_BlockedByAcyclic == \A id \in Ids : id \notin blockers(id, {})

(* ================= the store with dependencies: SpecDeps ============== *)

RoomDeps == history < MaxHistoryDeps

FiltersDeps == [status : {{}, {"todo"}, {"in_progress"}}, autonomy : {"none"}]

\* Humans' collab tasks only: what varies is status and blockedBy.
NextDeps ==
    \/ /\ RoomDeps
       /\ Cardinality(Ids) < MaxTasksDeps
       /\ \E blk \in Ids \cup {NULL} : CreateTask("valid", "human", Options("none", blk))
    \/ RoomDeps /\ \E id \in Ids, b \in Ids : BlockTask(id, b, "human")
    \/ RoomDeps /\ \E id \in Ids : UnblockTask(id, "human")
    \/ RoomDeps /\ \E id \in Ids, b \in Ids \cup {NULL} : UpdateTask(id, "blockedBy" :> b, "human")
    \/ RoomDeps /\ \E id \in Ids : StartTask(id, "human")
    \/ RoomDeps /\ \E id \in Ids : CompleteTask(id, "human")
    \/ RoomDeps /\ \E id \in Ids : ArchiveTask(id, "human")
    \/ RoomDeps /\ \E id \in Ids : UnarchiveTask(id, "human")
    \/ RoomDeps /\ \E f \in FiltersDeps : BulkComplete(f, "human")

SpecDeps == Init /\ [][NextDeps]_vars

\* the tasks whose blockedBy is x
dependents(x) == {d \in Ids : tasks[d].blockedBy = x}

\* C7: completeTask and bulkComplete commit, in one step, X done together with
\* blockedBy cleared on exactly the tasks that were blocked by X; every other
\* task keeps its blockedBy.
C7_CompletionUnblocks ==
    /\ \A x \in Ids :
          LET r == completeTask(x, "human") IN
          r.err = "ok" =>
              /\ r.tasks[x].status = "done"
              /\ \A d \in Ids :
                    r.tasks[d].blockedBy = IF d \in dependents(x) THEN NULL ELSE tasks[d].blockedBy
    /\ \A f \in FiltersDeps :
          LET r == bulkComplete(f, "human")
              X == {x \in Ids : r.tasks[x].status = "done" /\ tasks[x].status # "done"}
          IN \A d \in Ids :
                r.tasks[d].blockedBy =
                    IF \E x \in X : d \in dependents(x) THEN NULL ELSE tasks[d].blockedBy

\* completeTask succeeds on a task with two dependents, or on a task whose
\* dependent blocks a third task in turn
C7_Witness ==
    \E x \in Ids :
        /\ completeTask(x, "human").err = "ok"
        /\ \/ Cardinality(dependents(x)) >= 2
           \/ \E d \in dependents(x) : d # x /\ dependents(d) \ {x, d} # {}

(* ================== the agent's proposals: SpecRate =================== *)

RoomRate == history < MaxHistoryRate

\* The agent proposes, a human confirms, rejects, archives or edits the status;
\* the clock advances by the cooldown.
NextRate ==
    \/ /\ RoomRate
       /\ Cardinality(Ids) < MaxTasksRate
       /\ CreateTask("valid", "agent", Options("none", NULL))
    \/ RoomRate /\ \E id \in Ids : ConfirmTask(id, "human")
    \/ RoomRate /\ \E id \in Ids : RejectTask(id, "human", "reason")
    \/ RoomRate /\ \E id \in Ids : ArchiveTask(id, "human")
    \/ RoomRate /\ \E id \in Ids : UpdateTask(id, "status" :> "proposed", "human")
    \/ now < MaxTicksRate * CooldownSec /\ Tick(CooldownSec)

SpecRate == Init /\ [][NextRate]_vars

\* C8: at most 5 tasks are proposed by the agent; at 5 an agent createTask
\* fails with RATE_LIMIT_EXCEEDED and creates nothing; below 5 and past the
\* cooldown it succeeds.
C8_ProposedAtMostFive ==
    LET r == createTask("valid", "agent", Options("none", NULL)) IN
    /\ countProposed <= ProposedLimit
    /\ countProposed = ProposedLimit => r = Throw("RATE_LIMIT_EXCEEDED")
    /\ countProposed < ProposedLimit /\ ~cooldownActive => r.err = "ok"

(* ================= the proposal cooldown: SpecCooldown ================ *)

LockKeys == {"heartbeat_lock", "last_agent_proposal"}

\* the clock advances by a second less than the cooldown, or by the cooldown
CooldownTicks == {CooldownSec - 1, CooldownSec}

\* Agent and human create tasks, with values the store accepts and values its
\* constraints reject; config rows are written, locked and released.
NextCooldown ==
    \/ /\ Cardinality(Ids) < MaxTasksCooldown
       /\ \E a \in AddedBy, aut \in {"none", "bogus"}, urg \in {"valid", "invalid"} :
             CreateTask("valid", a, [Options(aut, NULL) EXCEPT !.urgency = urg])
    \/ SetConfig("last_agent_proposal", 0)
    \/ \E k \in LockKeys : AcquireLock(k)
    \/ \E k \in LockKeys : ReleaseLock(k)
    \/ \E d \in CooldownTicks : now + d <= MaxTicksCooldown * CooldownSec /\ Tick(d)

SpecCooldown == Init /\ [][NextCooldown]_vars

\* the calls of createTask, one field at a time away from a valid call
CreateInputs ==
    LET ok == Options("none", NULL) IN
    [text : {"valid"}, options : {ok}]
      \cup [text : TextClass, options : {ok}]
      \cup [text : {"valid"},
            options : {[ok EXCEPT !.project = c] : c \in TagClass}
                        \cup {[ok EXCEPT !.context = c] : c \in TagClass}
                        \cup {[ok EXCEPT !.dueDate = c] : c \in DateClass}
                        \cup {[ok EXCEPT !.blockedBy = b] : b \in AnyId}
                        \cup {[ok EXCEPT !.autonomy = a] : a \in AutonomyLevel \cup {"bogus"}}
                        \cup {[ok EXCEPT !.urgency = "invalid"]}]

\* the calls that pass every check made before the rate limit
PassValidation ==
    {i \in CreateInputs : /\ i.text = "valid"
                          /\ i.options.project \in {"none", "valid"}
                          /\ i.options.context \in {"none", "valid"}
                          /\ i.options.dueDate \in {"none", "valid"}
                          /\ i.options.blockedBy \in Ids \cup {NULL}}

\* less than the cooldown has passed since the last successful agent createTask
InWindow == lastAgentCreate # NULL /\ now - lastAgentCreate < CooldownSec

\* a step that creates a task of the agent
AgentCreates == \E i \in DOMAIN tasks' \ Ids : tasks'[i].addedBy = "agent"

\* humans are never throttled and do not start the window
HumanUnthrottled ==
    \A i \in CreateInputs :
        LET r == createTask(i.text, "human", i.options) IN
        r.err # "RATE_LIMIT_EXCEEDED" /\ r.config = config

\* within the window every agent createTask fails, with RATE_LIMIT_EXCEEDED
\* when it passes validation
Throttled ==
    \A i \in CreateInputs :
        LET r == createTask(i.text, "agent", i.options) IN
        /\ r.err # "ok"
        /\ i \in PassValidation => r.err = "RATE_LIMIT_EXCEEDED"

\* last_agent_proposal has been written through setConfig
SetByConfig == <<"setConfig", "last_agent_proposal">> \in rewritten

\* last_agent_proposal has been cleared through releaseLock
ClearedByRelease == <<"releaseLock", "last_agent_proposal">> \in rewritten

\* C9 as stated: unless last_agent_proposal is rewritten through setConfig,
\* successful agent createTask calls are at least 60 seconds apart and an agent
\* createTask within the window fails with RATE_LIMIT_EXCEEDED; humans are
\* never throttled and do not start the window.
C9_CooldownUnlessSetConfig ==
    /\ [](HumanUnthrottled /\ (InWindow /\ ~SetByConfig => Throttled))
    /\ [][AgentCreates /\ ~SetByConfig => ~InWindow]_vars

\* C9, amended: unless last_agent_proposal is rewritten through setConfig or
\* cleared through releaseLock since the last successful agent createTask,
\* successful agent createTask calls are at least 60 seconds apart and an agent
\* createTask within the window fails with RATE_LIMIT_EXCEEDED; humans are
\* never throttled and do not start the window.
C9_CooldownUnlessRewritten ==
    /\ [](HumanUnthrottled /\ (InWindow /\ ~SetByConfig /\ ~ClearedByRelease => Throttled))
    /\ [][AgentCreates /\ ~SetByConfig /\ ~ClearedByRelease => ~InWindow]_vars

\* 59 seconds after the agent's last createTask, with a lock taken and released
\* meanwhile and a human's task created, the agent's createTask is refused
C9_Witness ==
    /\ InWindow
    /\ now - lastAgentCreate = CooldownSec - 1
    /\ ~SetByConfig /\ ~ClearedByRelease
    /\ <<"releaseLock", "heartbeat_lock">> \in rewritten
    /\ \E i \in Ids : tasks[i].addedBy = "human"
    /\ createTask("valid", "agent", Options("none", NULL)) = Throw("RATE_LIMIT_EXCEEDED")

\* C10: a createTask that fails leaves no task row, no history row and the
\* config map, last_agent_proposal included, as they were.
C10_FailedCreateAppliesNothing ==
    \A i \in CreateInputs, a \in AddedBy :
        LET r == createTask(i.text, a, i.options) IN
        r.err # "ok" => r.tasks = tasks /\ r.hist = <<>> /\ r.config = config

(* ============== the rows with every column: SpecColumns =============== *)

\* as Init, with started_at, completed_at and notes retained
InitColumns ==
    /\ tasks = <<>>
    /\ history = 0
    /\ config = [k \in {"schema_version", "heartbeat_lock", "auto_execution_enabled"} |->
                    IF k = "heartbeat_lock" THEN NULL ELSE 1]
    /\ now = 0
    /\ createdAs = <<>>
    /\ confirmedEver = {}
    /\ lastAgentCreate = NULL
    /\ rewritten = {}
    /\ columns = {"startedAt", "completedAt", "notes"}
    /\ calls = [h \in Handles |-> Idle("none", NULL, "none")]
    /\ txn = <<>>
    /\ audit = NewAudit(FALSE)

RoomColumns == history < MaxHistoryColumns

\* Tasks are created, started, failed, retried, completed and annotated.
NextColumns ==
    \/ /\ RoomColumns
       /\ Cardinality(Ids) < MaxTasksColumns
       /\ \E a \in AddedBy, blk \in Ids \cup {NULL} : CreateTask("valid", a, Options("auto", blk))
    \/ RoomColumns /\ \E id \in Ids : StartTask(id, "agent")
    \/ RoomColumns /\ \E id \in Ids : CompleteTask(id, "agent")
    \/ RoomColumns /\ \E id \in Ids : FailTask(id, "reason")
    \/ RoomColumns /\ \E id \in Ids : ArchiveTask(id, "human")
    \/ RoomColumns /\ \E id \in Ids, note \in {"valid", "too_long"} : AddNote(id, note, "human")
    \/ \E id \in Ids : CanRetry(id)
    \/ now < MaxTicksColumns * RetryTick /\ Tick(RetryTick)

SpecColumns == InitColumns /\ [][NextColumns]_vars

\* b is a prefix of a
isPrefix(b, a) == Len(b) <= Len(a) /\ SubSeq(a, 1, Len(b)) = b

\* C15: failTask adds 1 to attempts, sets lastAttemptAt to the current time
\* and leaves the task todo; below 3 attempts nothing else of the task changes,
\* from 3 on autonomy is collab and the auto-demotion note is added to the
\* notes; one 'failed' history entry is appended and no other task changes.
C15_FailTaskEffect ==
    \A id \in Ids :
        LET r == failTask(id, "reason")
            n == tasks[id].attempts + 1
            core == [tasks[id] EXCEPT !.attempts = n, !.lastAttemptAt = now, !.status = "todo"]
        IN
        /\ r.err = "ok"
        /\ \A o \in Ids \ {id} : r.tasks[o] = tasks[o]
        /\ Len(r.hist) = 1
        /\ r.hist[1].taskId = id /\ r.hist[1].action = "failed"
        /\ IF n < MaxFailures
           THEN r.tasks[id] = core
           ELSE /\ [r.tasks[id] EXCEPT !.notes = <<>>] = [core EXCEPT !.autonomy = "collab", !.notes = <<>>]
                /\ Head(r.tasks[id].notes) = "[Auto-failed 3 times]"
                /\ isPrefix(Tail(r.tasks[id].notes), tasks[id].notes)

\* a task created auto, with a note, has failed three times: it is todo and
\* collab, and its notes begin with the auto-demotion note
C15_Witness ==
    \E id \in Ids :
        /\ tasks[id].attempts = MaxFailures
        /\ tasks[id].status = "todo"
        /\ tasks[id].autonomy = "collab" /\ createdAs[id] = "auto"
        /\ tasks[id].lastAttemptAt = now
        /\ tasks[id].notes = <<"[Auto-failed 3 times]", "note">>

\* the task has a blocker that is neither done nor archived
C16_Unresolved(id) ==
    /\ tasks[id].blockedBy \in Ids
    /\ tasks[tasks[id].blockedBy].status \notin {"done", "archived"}

\* C16: startTask succeeds exactly for a todo task with no unresolved blocker,
\* and then the task is in_progress with startedAt the current time and one
\* 'started' entry is appended; it fails with TASK_NOT_FOUND for an unknown
\* id, TASK_ALREADY_IN_PROGRESS for an in_progress task,
\* INVALID_STATUS_TRANSITION for a proposed, done or archived task and
\* TASK_BLOCKED for a todo task with an unresolved blocker; a failing call
\* changes no task and appends no history.
C16_StartTaskContract ==
    \A id \in AnyId :
        LET r == startTask(id, "agent") IN
        /\ r.err = "ok" <=> id \in Ids /\ tasks[id].status = "todo" /\ ~C16_Unresolved(id)
        /\ r.err = "ok" =>
              /\ r.tasks = [tasks EXCEPT ![id].status = "in_progress", ![id].startedAt = now]
              /\ Len(r.hist) = 1
              /\ r.hist[1].taskId = id /\ r.hist[1].action = "started"
        /\ id \notin Ids => r.err = "TASK_NOT_FOUND"
        /\ id \in Ids /\ tasks[id].status = "in_progress" => r.err = "TASK_ALREADY_IN_PROGRESS"
        /\ id \in Ids /\ tasks[id].status \in {"proposed", "done", "archived"}
              => r.err = "INVALID_STATUS_TRANSITION"
        /\ id \in Ids /\ tasks[id].status = "todo" /\ C16_Unresolved(id) => r.err = "TASK_BLOCKED"
        /\ r.err # "ok" => r.tasks = tasks /\ r.hist = <<>>

\* a task started after the clock moved is in_progress and stamped, and the
\* todo task it blocks cannot be started
C16_Witness ==
    \E id \in Ids, b \in Ids :
        /\ now > 0
        /\ tasks[b].status = "in_progress" /\ tasks[b].startedAt = now
        /\ tasks[id].status = "todo" /\ tasks[id].blockedBy = b
        /\ startTask(id, "agent").err = "TASK_BLOCKED"
        /\ startTask(b, "agent").err = "TASK_ALREADY_IN_PROGRESS"

\* C17: completeTask fails with TASK_NOT_CONFIRMED for a proposed task, with
\* TASK_ALREADY_DONE for a done task and with TASK_BLOCKED for any other task
\* whose blocker is neither done nor archived; a failing call changes no task
\* row (no dependent is unblocked) and appends no history; a successful call
\* leaves the task done with completedAt the current time.
C17_CompleteTaskContract ==
    \A id \in Ids :
        LET r == completeTask(id, "agent")
            unresolved == /\ tasks[id].blockedBy \in Ids
                          /\ tasks[tasks[id].blockedBy].status \notin {"done", "archived"}
        IN
        /\ tasks[id].status = "proposed" => r.err = "TASK_NOT_CONFIRMED"
        /\ tasks[id].status = "done" => r.err = "TASK_ALREADY_DONE"
        /\ tasks[id].status \notin {"proposed", "done"} /\ unresolved => r.err = "TASK_BLOCKED"
        /\ r.err # "ok" => r.tasks = tasks /\ r.hist = <<>>
        /\ r.err = "ok" => r.tasks[id].status = "done" /\ r.tasks[id].completedAt = now

\* a task completed after the clock moved is done and stamped and cannot be
\* completed again, beside a proposed task that cannot be completed
C17_Witness ==
    \E d \in Ids, p \in Ids :
        /\ now > 0
        /\ tasks[d].status = "done" /\ tasks[d].completedAt = now
        /\ completeTask(d, "agent").err = "TASK_ALREADY_DONE"
        /\ tasks[p].status = "proposed"
        /\ completeTask(p, "agent").err = "TASK_NOT_CONFIRMED"

\* C14: a task that has failed three times or more is not moved to
\* in_progress by startTask nor by canRetry, and its autonomy reads collab.
C14_NoStartAfterThreeFailures ==
    \A id \in Ids :
        tasks[id].attempts >= MaxFailures =>
            /\ startTask(id, "agent").err # "ok"
            /\ canRetry(id).err = "false"
            /\ tasks[id].autonomy = "collab"

(* ============== further claims checked under SpecAutonomy ============= *)

\* the reasons a caller can give to rejectTask: none, the empty text, a text
C18_Reasons == {"undefined", "", "reason"}

\* C18: on a proposed task confirmTask succeeds and leaves it todo, and
\* rejectTask succeeds, leaves it archived and appends one 'rejected' entry
\* that carries the reason when one is given; on a task in any other status
\* both fail with INVALID_STATUS_TRANSITION and change nothing.
C18_ConfirmRejectContract ==
    \A id \in Ids, reason \in C18_Reasons :
        LET c == confirmTask(id, "human")
            j == rejectTask(id, "human", reason)
        IN
        IF tasks[id].status = "proposed"
        THEN /\ c.err = "ok"
             /\ c.tasks = [tasks EXCEPT ![id].status = "todo"]
             /\ j.err = "ok"
             /\ j.tasks = [tasks EXCEPT ![id].status = "archived"]
             /\ Len(j.hist) = 1
             /\ j.hist[1].taskId = id /\ j.hist[1].action = "rejected"
             /\ j.hist[1].notes = IF reason \in {"undefined", ""} THEN <<>> ELSE <<reason>>
        ELSE /\ c = Throw("INVALID_STATUS_TRANSITION")
             /\ j = Throw("INVALID_STATUS_TRANSITION")

\* an agent's task has just been confirmed: it is todo, and neither
\* confirmTask nor rejectTask applies to it any more
C18_Witness ==
    \E id \in Ids :
        /\ tasks[id].addedBy = "agent"
        /\ id \in confirmedEver
        /\ tasks[id].status = "todo"
        /\ history = 2
        /\ confirmTask(id, "human").err = "INVALID_STATUS_TRANSITION"
        /\ rejectTask(id, "human", "reason").err = "INVALID_STATUS_TRANSITION"

\* C40: no step lowers a task's attempts, and a step that changes them adds
\* 1; a task with 3 attempts or more has autonomy collab, is not a result of
\* getNextTask with the auto option and is in neither auto-ready bucket of the
\* inbox.
C40_AttemptsOnlyGrow ==
    /\ [](\A id \in Ids :
             tasks[id].attempts >= MaxFailures =>
                 /\ tasks[id].autonomy = "collab"
                 /\ id \notin getNextTask([auto |-> TRUE])
                 /\ id \notin generateInbox.autoReady \cup generateInbox.autoNotifyReady)
    /\ [][\A id \in Ids :
             tasks'[id].attempts \in {tasks[id].attempts, tasks[id].attempts + 1}]_vars

\* a task created auto has failed three times and a later call has written
\* history: its attempts are still 3, it is todo and unblocked, it is the
\* result of getNextTask without the auto option and not with it
C40_Witness ==
    \E id \in Ids :
        /\ createdAs[id] = "auto"
        /\ tasks[id].attempts = MaxFailures
        /\ tasks[id].status = "todo"
        /\ tasks[id].blockedBy = NULL
        /\ history > MaxFailures + 1
        /\ getNextTask([auto |-> FALSE]) = {id}
        /\ getNextTask([auto |-> TRUE]) = {NULL}

(* ================ further claims checked under SpecDeps =============== *)

\* C19: blockTask on an existing task fails with BLOCKER_ALREADY_DONE, and
\* changes no task and no history, when the blocker is done or archived; it
\* fails with BLOCKER_NOT_FOUND when no task has the blocker's id; otherwise,
\* if no cycle results, the task's blockedBy becomes blockerId.
C19_BlockTaskContract ==
    \A id \in Ids, b \in AnyId :
        LET r == blockTask(id, b, "human") IN
        /\ b \in Ids /\ tasks[b].status \in {"done", "archived"}
              => r = Throw("BLOCKER_ALREADY_DONE")
        /\ b \notin Ids => r.err = "BLOCKER_NOT_FOUND"
        /\ b \in Ids /\ tasks[b].status \notin {"done", "archived"} /\ ~detectBlockerCycle(id, b)
              => r.err = "ok" /\ r.tasks[id].blockedBy = b

(* ============== further claims checked under SpecCooldown ============= *)

\* C20: acquireLock on a slot returns true if and only if the slot is empty
\* (reads as null), and then the slot holds the marker, so that every further
\* acquireLock returns false until the slot is released.
C20_AcquireIffEmpty ==
    \A k \in LockKeys :
        LET r == acquireLock(k) IN
        /\ r.err = "true" <=> getConfig(k) = NULL
        /\ r.err = "true" => r.config[k] # NULL
        /\ r.err = "false" => r.config = config

(* ============== further claims checked under SpecColumns ============== *)

\* C39: a task that is in_progress has startedAt set; the step that puts a
\* task in_progress sets its startedAt to the time of that step, and later
\* steps leave it while the task stays in_progress.
C39_StartedAtFresh ==
    /\ [](\A id \in Ids : tasks[id].status = "in_progress" => tasks[id].startedAt # NULL)
    /\ [][\A id \in Ids :
             tasks'[id].status = "in_progress" =>
                 tasks'[id].startedAt = IF tasks[id].status = "in_progress"
                                        THEN tasks[id].startedAt
                                        ELSE now']_vars

(* ============ retries within one calendar day: SpecRetry ============== *)

RoomRetry == history < MaxHistoryRetry

\* the clock advances by half the retry cooldown, or by twice the cooldown
RetryTicks == {RetryCooldownSec \div 2, 2 * RetryCooldownSec}

\* A task is created, started, failed and retried while the hours pass.
NextRetry ==
    \/ /\ RoomRetry
       /\ Cardinality(Ids) < MaxTasksRetry
       /\ CreateTask("valid", "human", Options("auto", NULL))
    \/ RoomRetry /\ \E id \in Ids : StartTask(id, "agent")
    \/ RoomRetry /\ \E id \in Ids : FailTask(id, "reason")
    \/ \E id \in AnyId : CanRetry(id)
    \/ \E d \in RetryTicks : now + d <= MaxHoursRetry * RetryCooldownSec /\ Tick(d)

SpecRetry == Init /\ [][NextRetry]_vars

\* C13: canRetry returns true exactly when the task exists, is todo, has
\* fewer than 3 attempts and has either no last attempt or one more than an
\* hour in the past; a call that returns true leaves the task in_progress and
\* a call that returns false leaves every task unchanged.
C13_CanRetryContract ==
    \A id \in AnyId :
        LET r == canRetry(id) IN
        /\ r.err = "true" <=>
              /\ id \in Ids
              /\ tasks[id].status = "todo"
              /\ tasks[id].attempts < MaxFailures
              /\ \/ tasks[id].lastAttemptAt = NULL
                 \/ now - tasks[id].lastAttemptAt > RetryCooldownSec
        /\ r.err = "true" => r.tasks = [tasks EXCEPT ![id].status = "in_progress"]
        /\ r.err = "false" => r.tasks = tasks

(* ========= two handles, one statement at a time: SpecRace ============= *)

RoomRace == history < MaxHistoryRace

\* the handle is inside startTask, about to run the statement pc names
InStart(h, pc, id, task) ==
    [pc |-> pc, op |-> "startTask", id |-> id, task |-> task, result |-> "none"]

\* what a step of a handle leaves alone besides tasks, history and calls
RaceFrame == UNCHANGED <<config, now, createdAs, confirmedEver, lastAgentCreate, rewritten, columns, txn>>

\* db.ts:633-645: getTask(id), and the tests on the row it returned
StartRead(h, id) ==
    /\ calls[h].pc = "idle"
    /\ calls' = [calls EXCEPT ![h] =
          IF ~hasTask(tasks, id) THEN Idle("startTask", id, "TASK_NOT_FOUND")
          ELSE IF tasks[id].status = "in_progress" THEN Idle("startTask", id, "TASK_ALREADY_IN_PROGRESS")
          ELSE IF tasks[id].status # "todo" THEN Idle("startTask", id, "INVALID_STATUS_TRANSITION")
          ELSE InStart(h, IF tasks[id].blockedBy # NULL THEN "blocker" ELSE "write", id, <<tasks[id]>>)]
    /\ UNCHANGED <<tasks, history>>
    /\ audit' = audit
    /\ RaceFrame

\* db.ts:647-652: getTask(task.blockedBy), for the blockedBy read before
StartBlocker(h) ==
    /\ calls[h].pc = "blocker"
    /\ LET b == calls[h].task[1].blockedBy IN
       calls' = [calls EXCEPT ![h] =
          IF hasTask(tasks, b) /\ tasks[b].status \notin {"done", "archived"}
          THEN Idle("startTask", calls[h].id, "TASK_BLOCKED")
          ELSE InStart(h, "write", calls[h].id, calls[h].task)]
    /\ UNCHANGED <<tasks, history>>
    /\ audit' = audit
    /\ RaceFrame

\* db.ts:654-655: UPDATE tasks SET status = 'in_progress', started_at = ? WHERE id = ?
StartWrite(h) ==
    /\ calls[h].pc = "write"
    /\ tasks' = retained([tasks EXCEPT ![calls[h].id].status = "in_progress",
                                       ![calls[h].id].startedAt = now])
    /\ calls' = [calls EXCEPT ![h] = InStart(h, "log", calls[h].id, calls[h].task)]
    /\ UNCHANGED history
    /\ audit' = audit
    /\ RaceFrame

\* db.ts:657-664: addHistory 'started', audit('start'), and the return
StartLog(h) ==
    /\ calls[h].pc = "log"
    /\ history' = history + 1
    /\ calls' = [calls EXCEPT ![h] = Idle("startTask", calls[h].id, "ok")]
    /\ UNCHANGED tasks
    /\ audit' = auditCall(audit)
    /\ RaceFrame

\* db.ts:1080-1094: canRetry, one UPDATE statement
RetryCall(h, id) ==
    /\ calls[h].pc = "idle"
    /\ tasks' = retained(canRetry(id).tasks)
    /\ calls' = [calls EXCEPT ![h] = Idle("canRetry", id, canRetry(id).err)]
    /\ UNCHANGED history
    /\ audit' = audit
    /\ RaceFrame

\* A human creates and archives tasks; each handle starts and retries tasks,
\* one statement at a time.
NextRace ==
    \/ /\ RoomRace
       /\ Cardinality(Ids) < MaxTasksRace
       /\ \E blk \in Ids \cup {NULL} : CreateTask("valid", "human", Options("none", blk))
    \/ RoomRace /\ \E id \in Ids : ArchiveTask(id, "human")
    \/ RoomRace /\ \E h \in Handles, id \in AnyId : StartRead(h, id)
    \/ \E h \in Handles : StartBlocker(h)
    \/ \E h \in Handles : StartWrite(h)
    \/ \E h \in Handles : StartLog(h)
    \/ \E h \in Handles, id \in AnyId : RetryCall(h, id)

SpecRace == Init /\ [][NextRace]_vars

\* C11: of two handles that run startTask on the same task, which is todo
\* once and never again, at most one returns normally.
C11_OneStartSucceeds ==
    \A h1 \in Handles : \A h2 \in Handles \ {h1} :
        ~ /\ calls[h1].op = "startTask" /\ calls[h1].result = "ok"
          /\ calls[h2].op = "startTask" /\ calls[h2].result = "ok"
          /\ calls[h1].id = calls[h2].id

\* the handles whose last call was canRetry(id) and returned true
C12_Winners(id) ==
    {h \in Handles : calls[h].op = "canRetry" /\ calls[h].id = id /\ calls[h].result = "true"}

\* C12: a canRetry call returns true exactly when the task is eligible, and
\* in the same step the task becomes in_progress, so that of the handles that
\* call canRetry on a task at most one gets true; a call that returns false
\* changes no task. (No task of SpecRace has failed, and none returns to todo:
\* a task is eligible exactly while it is todo.)
C12_OneRetryWinner ==
    /\ [](\A id \in Ids : Cardinality(C12_Winners(id)) <= 1)
    /\ [][\A h \in Handles :
             calls'[h] # calls[h] /\ calls'[h].op = "canRetry" =>
                 LET id == calls'[h].id IN
                 IF id \in Ids /\ tasks[id].status = "todo"
                 THEN /\ calls'[h].result = "true"
                      /\ tasks' = [tasks EXCEPT ![id].status = "in_progress"]
                 ELSE /\ calls'[h].result = "false"
                      /\ tasks' = tasks]_vars

\* both handles have called canRetry on the same task: one got true, the
\* other false, and the task is in_progress
C12_Witness ==
    \E id \in Ids :
        /\ calls["h1"].op = "canRetry" /\ calls["h1"].id = id /\ calls["h1"].result = "false"
        /\ calls["h2"].op = "canRetry" /\ calls["h2"].id = id /\ calls["h2"].result = "true"
        /\ tasks[id].status = "in_progress"

\* C25: bulkComplete moves to done exactly the tasks matching the filter on
\* which completeTask would succeed, and bulkArchive archives exactly the
\* matching tasks on which archiveTask would succeed; the count returned, the
\* number of history entries written, is the number of tasks moved.
C25_BulkAsSingular ==
    \A f \in FiltersDeps :
        LET c == bulkComplete(f, "human")
            a == bulkArchive(f, "human")
            completed == {i \in Ids : c.tasks[i].status = "done" /\ tasks[i].status # "done"}
            archived == {i \in Ids : a.tasks[i].status = "archived" /\ tasks[i].status # "archived"}
        IN
        /\ completed = {i \in listTasks(f) : completeTask(i, "human").err = "ok"}
        /\ Len(c.hist) = Cardinality(completed)
        /\ archived = {i \in listTasks(f) : archiveTask(i, "human").err = "ok"}
        /\ Len(a.hist) = Cardinality(archived)

(* ================== further claims checked under Spec ================= *)

\* the tasks whose status a step changes, those it creates included
C24_Moved == {id \in DOMAIN tasks' : id \notin Ids \/ tasks'[id].status # tasks[id].status}

\* C24: every step that changes the status of tasks appends one history entry
\* for each of them.
C24_TransitionsRecorded == [][history' - history >= Cardinality(C24_Moved)]_vars

(* ================= the notes of a task: SpecNotes ===================== *)

\* as Init, with notes retained
InitNotes ==
    /\ tasks = <<>>
    /\ history = 0
    /\ config = [k \in {"schema_version", "heartbeat_lock", "auto_execution_enabled"} |->
                    IF k = "heartbeat_lock" THEN NULL ELSE 1]
    /\ now = 0
    /\ createdAs = <<>>
    /\ confirmedEver = {}
    /\ lastAgentCreate = NULL
    /\ rewritten = {}
    /\ columns = {"notes"}
    /\ calls = [h \in Handles |-> Idle("none", NULL, "none")]
    /\ txn = <<>>
    /\ audit = NewAudit(FALSE)

RoomNotes == history < MaxHistoryNotes

\* the notes a caller can pass to updateTask: none, or notes up to one note
\* beyond the limit
NotesValues == {[i \in 1..n |-> "text"] : n \in 0..(NotesLimit + 1)}

\* A task is created, annotated, rewritten and failed.
NextNotes ==
    \/ /\ RoomNotes
       /\ Cardinality(Ids) < MaxTasksNotes
       /\ CreateTask("valid", "human", Options("auto", NULL))
    \/ RoomNotes /\ \E id \in Ids, note \in {"valid", "too_long"} : AddNote(id, note, "human")
    \/ RoomNotes /\ \E id \in Ids, v \in NotesValues : UpdateTask(id, "notes" :> v, "human")
    \/ RoomNotes /\ \E id \in Ids : FailTask(id, "reason")

SpecNotes == InitNotes /\ [][NextNotes]_vars

\* C29: addNote either stores the previous notes followed by the new note and
\* appends one 'note_added' entry, or, when the note or the combined notes
\* exceed the limit, fails and leaves every task and the history unchanged;
\* and in every reachable state the notes of a task are within the limit.
C29_AddNoteAllOrNothing ==
    \A id \in Ids :
        /\ Len(tasks[id].notes) <= NotesLimit
        /\ \A note \in {"valid", "too_long"} :
              LET r == addNote(id, note, "human") IN
              IF note = "valid" /\ Len(tasks[id].notes) + 1 <= NotesLimit
              THEN /\ r.err = "ok"
                   /\ r.tasks = [tasks EXCEPT ![id].notes = @ \o <<"note">>]
                   /\ Len(r.hist) = 1
                   /\ r.hist[1].taskId = id /\ r.hist[1].action = "note_added"
              ELSE /\ r.err # "ok"
                   /\ r.tasks = tasks /\ r.hist = <<>>

\* the notes of a task are full, the last of them added by addNote, and a
\* further note is refused
C29_Witness ==
    \E id \in Ids :
        /\ Len(tasks[id].notes) = NotesLimit
        /\ tasks[id].notes[NotesLimit] = "note"
        /\ addNote(id, "valid", "human").err = "TEXT_TOO_LONG"
        /\ addNote(id, "too_long", "human").err = "VALIDATION_ERROR"

\* C30: after any step the notes a task had before are a prefix of the notes
\* it has.
C30_NotesAppendOnly == [][\A id \in Ids : isPrefix(tasks[id].notes, tasks'[id].notes)]_vars

(* ==================== the audit trail: SpecAudit ====================== *)

\* as Init, with the audit trail followed
InitAudit ==
    /\ tasks = <<>>
    /\ history = 0
    /\ config = [k \in {"schema_version", "heartbeat_lock", "auto_execution_enabled"} |->
                    IF k = "heartbeat_lock" THEN NULL ELSE 1]
    /\ now = 0
    /\ createdAs = <<>>
    /\ confirmedEver = {}
    /\ lastAgentCreate = NULL
    /\ rewritten = {}
    /\ columns = {}
    /\ calls = [h \in Handles |-> Idle("none", NULL, "none")]
    /\ txn = <<>>
    /\ audit = NewAudit(TRUE)

\* what a step of the audit trail leaves alone besides tasks, history and audit
AuditFrame ==
    UNCHANGED <<config, now, createdAs, confirmedEver, lastAgentCreate, rewritten, columns,
                calls, txn>>

\* db.ts:241-245: the flush timer fires
TimerFires ==
    /\ audit.timer
    /\ audit' = flushAudit(audit)
    /\ UNCHANGED <<tasks, history>>
    /\ AuditFrame

\* db.ts:260: the appendFile of a batch completes
WriteDone(batch) ==
    /\ batch \in audit.writes
    /\ audit' = [audit EXCEPT !.writes = @ \ {batch}, !.file = @ \cup Range(batch)]
    /\ UNCHANGED <<tasks, history>>
    /\ AuditFrame

\* db.ts:260-291: the appendFile of a batch fails, and its catch runs
WriteFail(batch) ==
    /\ batch \in audit.writes
    /\ LET d == fallbackInsert(audit, batch) IN
       /\ tasks' = d.tasks
       /\ history' = d.history
       /\ audit' = [audit EXCEPT !.writes = @ \ {batch}, !.failed = d.failed]
    /\ AuditFrame

\* variant: close() closes the handle and leaves the queue as it is
closeStoreUnflushed(A, writeFails) == [A EXCEPT !.timer = FALSE, !.open = FALSE]

\* db.ts:1153-1191: close() clears the timer, writes the queue with
\* appendFileSync, or inserts it into _failed_audits when that write fails,
\* and closes the handle
closeStore(A, writeFails) ==
    LET cleared == [A EXCEPT !.timer = FALSE, !.queue = <<>>] IN
    IF A.queue = <<>> THEN [cleared EXCEPT !.open = FALSE]
    ELSE IF writeFails
    THEN [cleared EXCEPT !.failed = fallbackInsert(A, A.queue).failed, !.open = FALSE]
    ELSE [cleared EXCEPT !.file = @ \cup Range(A.queue), !.open = FALSE]

Close(writeFails) ==
    /\ audit.open
    /\ audit' = closeStore(audit, writeFails)
    /\ LET d == fallbackInsert(audit, audit.queue) IN
       IF writeFails /\ audit.queue # <<>>
       THEN tasks' = d.tasks /\ history' = d.history
       ELSE UNCHANGED <<tasks, history>>
    /\ AuditFrame

RoomAudit == audit.open /\ history < MaxHistoryAudit

\* A task is created, started, failed, completed and archived on an open
\* store; the timer fires, the writes to the audit file end, the store is
\* closed.
NextAudit ==
    \/ /\ RoomAudit
       /\ Cardinality(Ids) < MaxTasksAudit
       /\ CreateTask("valid", "human", Options("auto", NULL))
    \/ RoomAudit /\ \E id \in Ids : StartTask(id, "agent")
    \/ RoomAudit /\ \E id \in Ids : FailTask(id, "reason")
    \/ RoomAudit /\ \E id \in Ids : CompleteTask(id, "agent")
    \/ RoomAudit /\ \E id \in Ids : ArchiveTask(id, "human")
    \/ TimerFires
    \/ \E batch \in audit.writes : WriteDone(batch)
    \/ \E batch \in audit.writes : WriteFail(batch)
    \/ \E writeFails \in BOOLEAN : Close(writeFails)

SpecAudit == InitAudit /\ [][NextAudit]_vars

\* C21: once the store is closed and no write to the audit file is in flight,
\* every entry that was queued is in the audit file or in _failed_audits.
C21_NoAuditDropped ==
    ~audit.open /\ audit.writes = {} => (1..audit.count) \subseteq audit.file \cup audit.failed

C23_SinkNeverTouchesStore ==
    [][/\ audit' # audit /\ audit'.count = audit.count
          => tasks' = tasks /\ history' = history /\ config' = config
       /\ audit'.count > audit.count => history' > history]_vars

\* a write to the audit file has failed into _failed_audits, and a call made
\* after its entry was queued has written history
C23_Witness ==
    /\ audit.open
    /\ \E e \in audit.failed : audit.count > e /\ history > e

\* C36: between calls the queue is shorter than a batch, a timer is pending
\* exactly when the queue is not empty, and an entry leaves the queue only
\* into a flush: a write to the audit file, the file, or _failed_audits.
C36_FlushPolicy ==
    /\ [](/\ Len(audit.queue) < AuditBatchSize
          /\ audit.timer <=> audit.queue # <<>>)
    /\ [][Range(audit.queue) \ Range(audit'.queue) \subseteq
             UNION {Range(b) : b \in audit'.writes} \cup audit'.file \cup audit'.failed]_vars

\* a full batch was flushed when its last entry was queued, and a later entry
\* waits in the queue with the timer pending
C36_Witness ==
    /\ audit.open
    /\ audit.count > AuditBatchSize
    /\ audit.queue = <<audit.count>>
    /\ audit.timer
    /\ \E b \in audit.writes : Len(b) = AuditBatchSize

(* ============== bulk calls, statement by statement: SpecBulk ========== *)

\* the ids of S in the order listTasks returns them: by urgency and
\* created_at, and here by insertion among rows that have these equal
RECURSIVE rowsOf(_)
rowsOf(S) ==
    IF S = {} THEN <<>>
    ELSE LET m == CHOOSE x \in S : \A y \in S : ~sortsBefore(y, x) /\ (sortsBefore(x, y) \/ x <= y)
         IN <<m>> \o rowsOf(S \ {m})

\* db.ts:810-821: the body of bulkComplete's loop for one row of the list, on
\* the tables W as the transaction has written them; status is the row's
\* status as listTasks returned it
bulkCompleteOne(W, id, status) ==
    IF status \in {"todo", "in_progress"}
    THEN [W EXCEPT !.tasks = unblockDependents(
                                 [W.tasks EXCEPT ![id].status = "done", ![id].completedAt = now],
                                 {id}),
                   !.hist = @ + 1]
    ELSE W

\* db.ts:851-861: the body of bulkArchive's loop
bulkArchiveOne(W, id, status) ==
    IF status # "archived"
    THEN [W EXCEPT !.tasks = [W.tasks EXCEPT ![id].status = "archived"], !.hist = @ + 1]
    ELSE W

\* variant: the statements of an interrupted call stay written
rollbackNever(persisted, written) == written

\* db.ts:808, 849: this.db.transaction(...): what the database holds after a
\* transaction that did not commit
rollback(persisted, written) == persisted

\* what a step of a bulk call leaves alone
BulkFrame ==
    UNCHANGED <<config, now, createdAs, confirmedEver, lastAgentCreate, rewritten, columns, calls>>

\* db.ts:803-808, 844-849: listTasks(filters), and the transaction begins
BulkBegin(op, filters, actor) ==
    /\ txn = <<>>
    /\ txn' = <<[op |-> op, filters |-> filters, actor |-> actor,
                 rest |-> rowsOf(listTasks(filters)), listed |-> tasks,
                 tasks |-> tasks, hist |-> 0]>>
    /\ UNCHANGED <<tasks, history, audit>>
    /\ BulkFrame

\* one turn of the loop
BulkVisit ==
    /\ txn # <<>>
    /\ txn[1].rest # <<>>
    /\ LET id == Head(txn[1].rest)
           W == [txn[1] EXCEPT !.rest = Tail(@)]
       IN txn' = << IF txn[1].op = "bulkComplete"
                    THEN bulkCompleteOne(W, id, txn[1].listed[id].status)
                    ELSE bulkArchiveOne(W, id, txn[1].listed[id].status) >>
    /\ UNCHANGED <<tasks, history, audit>>
    /\ BulkFrame

\* db.ts:825-831, 864-868: the transaction commits, and audit() is called if
\* a task was counted
BulkCommit ==
    /\ txn # <<>>
    /\ txn[1].rest = <<>>
    /\ tasks' = retained(txn[1].tasks)
    /\ history' = history + txn[1].hist
    /\ audit' = IF txn[1].hist > 0 THEN auditCall(audit) ELSE audit
    /\ txn' = <<>>
    /\ BulkFrame

\* the process is interrupted inside the call
Interrupt ==
    /\ txn # <<>>
    /\ tasks' = retained(rollback(tasks, txn[1].tasks))
    /\ history' = rollback(history, history + txn[1].hist)
    /\ txn' = <<>>
    /\ UNCHANGED audit
    /\ BulkFrame

RoomBulk == txn = <<>> /\ history < MaxHistoryBulk

\* Tasks are created and started; bulk calls run one statement at a time and
\* are interrupted.
NextBulk ==
    \/ /\ RoomBulk
       /\ Cardinality(Ids) < MaxTasksBulk
       /\ \E a \in AddedBy, blk \in Ids \cup {NULL} : CreateTask("valid", a, Options("none", blk))
    \/ RoomBulk /\ \E id \in Ids : StartTask(id, "human")
    \/ RoomBulk /\ \E op \in {"bulkComplete", "bulkArchive"}, f \in FiltersDeps : BulkBegin(op, f, "human")
    \/ BulkVisit
    \/ BulkCommit
    \/ Interrupt

SpecBulk == Init /\ [][NextBulk]_vars

\* the outcome of the whole bulk call that is open, on the persisted tables
C26_Whole ==
    IF txn[1].op = "bulkComplete"
    THEN bulkComplete(txn[1].filters, txn[1].actor)
    ELSE bulkArchive(txn[1].filters, txn[1].actor)

\* C26: while a bulk call is open, whether it goes on, commits or is
\* interrupted, a step leaves the persisted tasks and history as they were
\* before the call, or ends the call with all of its status changes, history
\* entries and unblocks written.
C26_BulkAllOrNothing ==
    [][txn # <<>> =>
          \/ tasks' = tasks /\ history' = history
          \/ /\ txn' = <<>>
             /\ tasks' = retained(C26_Whole.tasks)
             /\ history' = history + Len(C26_Whole.hist)]_vars

\* a bulk call is open: it has written one task and its history, and unblocked
\* a dependent, and has rows left to visit, while the persisted tables show
\* none of it
C26_Witness ==
    /\ txn # <<>>
    /\ txn[1].hist = 1
    /\ txn[1].rest # <<>>
    /\ \E d \in Ids : tasks[d].blockedBy # NULL /\ txn[1].tasks[d].blockedBy = NULL
    /\ \E i \in Ids : tasks[i].status # txn[1].tasks[i].status

(* ======================= the inbox: SpecInbox ========================= *)

\* a due date typed as MM/DD/YYYY: it names the day, and as a text it sorts
\* before every YYYY-MM-DD text of the years 2000 and later
slashDate(day) == <<-1, day>>

\* the days a due date names
DueDays == 1..MaxDaysInbox

InitInbox ==
    /\ tasks = <<>>
    /\ history = 0
    /\ config = [k \in {"schema_version", "heartbeat_lock", "auto_execution_enabled"} |->
                    IF k = "heartbeat_lock" THEN NULL ELSE 1]
    /\ now = 0
    /\ createdAs = <<>>
    /\ confirmedEver = {}
    /\ lastAgentCreate = NULL
    /\ rewritten = {}
    /\ columns = {"urgency", "dueDate", "startedAt"}
    /\ calls = [h \in Handles |-> Idle("none", NULL, "none")]
    /\ txn = <<>>
    /\ audit = NewAudit(FALSE)

RoomInbox == history < MaxHistoryInbox

\* Tasks are created with an urgency, a due date, an autonomy level and a
\* blocker, given another due date, started, completed and archived, and days
\* pass.
NextInbox ==
    \/ /\ RoomInbox
       /\ Cardinality(Ids) < MaxTasksInbox
       /\ \E a \in AddedBy, aut \in {"none", "auto", "auto-notify"}, urg \in {"none", "now"},
             blk \in Ids \cup {NULL} :
             \/ CreateTask("valid", a, [Options(aut, blk) EXCEPT !.urgency = urg])
             \/ \E d \in DueDays :
                   CreateTask("valid", a, [Options(aut, blk) EXCEPT !.urgency = urg,
                                                              !.dueDate = "valid", !.dueDay = d])
    \/ RoomInbox /\ \E id \in Ids, d \in DueDays : UpdateTask(id, "dueDate" :> slashDate(d), "human")
    \/ RoomInbox /\ \E id \in Ids : StartTask(id, "human")
    \/ RoomInbox /\ \E id \in Ids : CompleteTask(id, "human")
    \/ RoomInbox /\ \E id \in Ids : ArchiveTask(id, "human")
    \/ now + DaySec <= MaxDaysInbox * DaySec /\ Tick(DaySec)

SpecInbox == InitInbox /\ [][NextInbox]_vars

\* C27: a task is in proposed iff its status is proposed, in urgent iff its
\* urgency is now and it is todo or in_progress, in overdue iff its due date
\* is a day before today and it is todo or in_progress, in stale iff it is
\* in_progress and was started more than 24 hours ago; a done or archived
\* task is in no bucket.
C27_InboxPredicates ==
    LET inbox == generateInbox
        active(i) == tasks[i].status \in {"todo", "in_progress"}
    IN \A i \in Ids :
          /\ i \in inbox.proposed <=> tasks[i].status = "proposed"
          /\ i \in inbox.urgent <=> (tasks[i].urgency = "now" /\ active(i))
          /\ i \in inbox.overdue <=>
                (tasks[i].dueDate # <<>> /\ tasks[i].dueDate[2] < dayOf(now) /\ active(i))
          /\ i \in inbox.stale <=>
                (/\ tasks[i].status = "in_progress"
                 /\ tasks[i].startedAt # NULL
                 /\ now - tasks[i].startedAt > DaySec)
          /\ tasks[i].status \in {"done", "archived"} =>
                \A b \in DOMAIN inbox : i \notin inbox[b]

\* C28: a todo or in_progress task is in blocked iff startTask's blocker test
\* holds of it, a todo task with autonomy auto (auto-notify) is in autoReady
\* (autoNotifyReady) iff the test does not hold, and no task is in blocked and
\* in one of the two.
C28_SameBlockerRule ==
    LET inbox == generateInbox IN
    \A i \in Ids :
       /\ tasks[i].status \in {"todo", "in_progress"} =>
             (i \in inbox.blocked <=> blockerUnresolved(i))
       /\ (tasks[i].status = "todo" /\ tasks[i].autonomy = "auto") =>
             (i \in inbox.autoReady <=> ~blockerUnresolved(i))
       /\ (tasks[i].status = "todo" /\ tasks[i].autonomy = "auto-notify") =>
             (i \in inbox.autoNotifyReady <=> ~blockerUnresolved(i))
       /\ ~(i \in inbox.blocked /\ i \in inbox.autoReady \cup inbox.autoNotifyReady)

(* ==================== the ordered reads: SpecNext ===================== *)

InitNext ==
    /\ tasks = <<>>
    /\ history = 0
    /\ config = [k \in {"schema_version", "heartbeat_lock", "auto_execution_enabled"} |->
                    IF k = "heartbeat_lock" THEN NULL ELSE 1]
    /\ now = 0
    /\ createdAs = <<>>
    /\ confirmedEver = {}
    /\ lastAgentCreate = NULL
    /\ rewritten = {}
    /\ columns = {"urgency", "createdAt"}
    /\ calls = [h \in Handles |-> Idle("none", NULL, "none")]
    /\ txn = <<>>
    /\ audit = NewAudit(FALSE)

RoomNext == history < MaxHistoryNext

\* the caller starts the task that getNextTask returned
StartNext(auto) ==
    \E id \in getNextTask([auto |-> auto]) : id # NULL /\ StartTask(id, "agent")

\* Tasks are created with an urgency, an autonomy level and a blocker at
\* different times, their urgency is changed, the next task is started, tasks
\* are completed.
NextNext ==
    \/ /\ RoomNext
       /\ Cardinality(Ids) < MaxTasksNext
       /\ \E aut \in {"none", "auto"}, urg \in {"none", "now", "someday"}, blk \in Ids \cup {NULL} :
             CreateTask("valid", "human", [Options(aut, blk) EXCEPT !.urgency = urg])
    \/ RoomNext /\ \E id \in Ids : UpdateTask(id, "urgency" :> "soon", "human")
    \/ RoomNext /\ \E auto \in BOOLEAN : StartNext(auto)
    \/ RoomNext /\ \E id \in Ids : CompleteTask(id, "human")
    \/ now < MaxTicksNext /\ Tick(1)

SpecNext == InitNext /\ [][NextNext]_vars

\* now before soon before whenever before someday
C37_Rank(id) ==
    CHOOSE k \in 1..4 : <<"now", "soon", "whenever", "someday">>[k] = tasks[id].urgency

\* task j comes before task i: a lower rank, or the same and created earlier
C37_Before(j, i) ==
    \/ C37_Rank(j) < C37_Rank(i)
    \/ C37_Rank(j) = C37_Rank(i) /\ tasks[j].createdAt < tasks[i].createdAt

\* the filters passed to listTasks
C37_Filters ==
    [status : {{}, {"todo"}, {"todo", "in_progress"}}, autonomy : {"none", "auto"}]
      \cup {[status |-> {}, autonomy |-> "none", blocked |-> b] : b \in BOOLEAN}
      \cup {[status |-> {}, autonomy |-> "none", ready |-> TRUE],
            [status |-> {"todo"}, autonomy |-> "none", urgency |-> "now", addedBy |-> "human"]}

\* task i passes every filter given
C37_Matches(i, f) ==
    /\ f.status # {} => tasks[i].status \in f.status
    /\ f.autonomy # "none" => tasks[i].autonomy = f.autonomy
    /\ "urgency" \in DOMAIN f => tasks[i].urgency = f.urgency
    /\ "addedBy" \in DOMAIN f => tasks[i].addedBy = f.addedBy
    /\ "blocked" \in DOMAIN f => (f.blocked <=> tasks[i].blockedBy # NULL)
    /\ "ready" \in DOMAIN f => tasks[i].status \in {"todo", "in_progress"} /\ tasks[i].blockedBy = NULL

\* C37: getNextTask returns null exactly when no task is todo and unblocked
\* (and auto or auto-notify, with the auto option); otherwise it returns such
\* a task that no other such task comes before, and startTask accepts it.
\* listTasks returns the tasks that pass every filter given, none before a
\* task that comes before it.
C37_NextIsFirstReady ==
    /\ \A auto \in BOOLEAN :
          LET ready == {i \in Ids : /\ tasks[i].status = "todo"
                                    /\ tasks[i].blockedBy = NULL
                                    /\ (auto => tasks[i].autonomy \in {"auto", "auto-notify"})}
          IN \A r \in getNextTask([auto |-> auto]) :
                /\ r = NULL <=> ready = {}
                /\ r # NULL =>
                      /\ r \in ready
                      /\ \A j \in ready : ~C37_Before(j, r)
                      /\ startTask(r, "agent").err = "ok"
    /\ \A f \in C37_Filters :
          /\ listOrders(listTasks(f)) # {}
          /\ \A q \in listOrders(listTasks(f)) :
                /\ Range(q) = {i \in Ids : C37_Matches(i, f)}
                /\ Len(q) = Cardinality(Range(q))
                /\ \A k \in DOMAIN q : \A l \in DOMAIN q : k < l => ~C37_Before(q[l], q[k])

\* two tasks are todo and unblocked: the one created last is urgent and is
\* the next task, before the older task of the default urgency; with the auto
\* option there is none
C37_Witness ==
    \E a \in Ids, c \in Ids :
        /\ tasks[a].createdAt < tasks[c].createdAt
        /\ tasks[a].urgency = "whenever" /\ tasks[c].urgency = "now"
        /\ \A i \in {a, c} : tasks[i].status = "todo" /\ tasks[i].blockedBy = NULL
        /\ getNextTask([auto |-> FALSE]) = {c}
        /\ getNextTask([auto |-> TRUE]) = {NULL}
        /\ listOrders(listTasks([status |-> {"todo"}, autonomy |-> "none"])) = {<<c, a>>}

(* ================== project and context: SpecTags ===================== *)

InitTags ==
    /\ tasks = <<>>
    /\ history = 0
    /\ config = [k \in {"schema_version", "heartbeat_lock", "auto_execution_enabled"} |->
                    IF k = "heartbeat_lock" THEN NULL ELSE 1]
    /\ now = 0
    /\ createdAs = <<>>
    /\ confirmedEver = {}
    /\ lastAgentCreate = NULL
    /\ rewritten = {}
    /\ columns = {"project", "context"}
    /\ calls = [h \in Handles |-> Idle("none", NULL, "none")]
    /\ txn = <<>>
    /\ audit = NewAudit(FALSE)

\* the tag values a caller can pass
TagValues == TagClass \cup {"glob_only"}

RoomTags == history < MaxHistoryTags

\* Tasks are created with a project and a context, and given others.
NextTags ==
    \/ /\ RoomTags
       /\ Cardinality(Ids) < MaxTasksTags
       /\ \E p \in TagValues, c \in TagValues :
             CreateTask("valid", "human", [Options("none", NULL) EXCEPT !.project = p, !.context = c])
    \/ RoomTags /\ \E id \in Ids, k \in {"project", "context"}, v \in TagValues :
                      UpdateTask(id, k :> v, "human")

SpecTags == InitTags /\ [][NextTags]_vars

\* null, or the prefix followed by one or more of a-z, 0-9 and -, at most 50
\* characters long
C32_WellFormed(tag) == tag \in {"none", "valid"}

\* C32: every task's project and context are null or well-formed, and a
\* createTask or updateTask that passes any other value for one of them fails
\* and changes nothing.
C32_TagsWellFormed ==
    /\ \A id \in Ids : C32_WellFormed(tasks[id].project) /\ C32_WellFormed(tasks[id].context)
    /\ \A k \in {"project", "context"}, v \in {t \in TagValues : ~C32_WellFormed(t)} :
          /\ LET r == createTask("valid", "human", [Options("none", NULL) EXCEPT ![k] = v]) IN
                r.err # "ok" /\ r.tasks = tasks /\ r.hist = <<>>
          /\ \A id \in Ids :
                LET r == updateTask(id, k :> v, "human") IN
                r.err # "ok" /\ r.tasks = tasks /\ r.hist = <<>>

(* ==================== what is stored: SpecSanitize ==================== *)

InitSanitize ==
    /\ tasks = <<>>
    /\ history = 0
    /\ config = [k \in {"schema_version", "heartbeat_lock", "auto_execution_enabled"} |->
                    IF k = "heartbeat_lock" THEN NULL ELSE 1]
    /\ now = 0
    /\ createdAs = <<>>
    /\ confirmedEver = {}
    /\ lastAgentCreate = NULL
    /\ rewritten = {}
    /\ columns = {"notes"}
    /\ calls = [h \in Handles |-> Idle("none", NULL, "none")]
    /\ txn = <<>>
    /\ audit = NewAudit(FALSE)

RoomSanitize == history < MaxHistorySanitize

\* the pieces of a text a caller passes
Pieces == {"a", " ", "NUL", "SYSTEM PROMPT", "SEND TOKEN", "[FILTERED]"}

\* the texts a caller can pass as notes or as a reason
RawTexts == UNION {[1..n -> Pieces] : n \in 0..MaxLenSanitize}

\* A task is created, its notes are rewritten, and it is failed with a reason.
NextSanitize ==
    \/ /\ RoomSanitize
       /\ Cardinality(Ids) < MaxTasksSanitize
       /\ CreateTask("valid", "human", Options("auto", NULL))
    \/ RoomSanitize /\ \E id \in Ids, v \in RawTexts : UpdateTask(id, "notes" :> v, "agent")
    \/ RoomSanitize /\ \E id \in Ids, reason \in RawTexts : FailTask(id, reason)

SpecSanitize == InitSanitize /\ [][NextSanitize]_vars

\* C33: sanitizing is idempotent: the notes updateTask has stored, which are
\* the sanitizer's output for the notes it was given, are left as they are
\* by the sanitizer, and hold no piece that an injection pattern matches at
\* a word boundary.
C33_SanitizeIdempotent ==
    \A id \in Ids :
        /\ sanitizeNotes(tasks[id].notes) = tasks[id].notes
        /\ \A i \in DOMAIN tasks[id].notes, k \in DOMAIN INJECTION_PATTERNS :
              ~(tasks[id].notes[i] = INJECTION_PATTERNS[k] /\ wordBoundary(tasks[id].notes, i))

\* C31: no raw text of a caller is stored: the notes that updateTask stores
\* are the sanitizer's output for the notes given, and the reason that
\* failTask writes to the history is the sanitizer's output for the reason
\* given, with control characters and injection patterns stripped.
C31_NothingRawStored ==
    \A id \in Ids : \A raw \in RawTexts :
        /\ LET r == updateTask(id, "notes" :> raw, "agent") IN
              r.err = "ok" => r.tasks[id].notes = stripInjectionPatterns(stripControlChars(raw))
        /\ LET r == failTask(id, raw) IN
              r.err = "ok" =>
                 r.hist[1].notes = <<stripInjectionPatterns(stripControlChars(raw))>>

(* ============ a call cut short between statements: SpecCrash =========== *)

RoomCrash == history < MaxHistoryCrash

\* the handle is inside createTask; the INSERT has run for the task id
InCreate(h, id) ==
    [pc |-> "log", op |-> "createTask", id |-> id, task |-> <<>>, result |-> "none"]

\* db.ts:299-407: a human's createTask up to and including the INSERT, which
\* commits on its own
CreateInsert(h, blk) ==
    LET r == createTask("valid", "human", Options("none", blk)) IN
    /\ calls[h].pc = "idle"
    /\ tasks' = retained(r.tasks)
    /\ calls' = [calls EXCEPT ![h] = IF r.err = "ok" THEN InCreate(h, freshId)
                                     ELSE Idle("createTask", NULL, r.err)]
    /\ createdAs' = IF r.err = "ok" THEN createdAs @@ (freshId :> r.tasks[freshId].autonomy)
                     ELSE createdAs
    /\ UNCHANGED <<history, config, now, confirmedEver, lastAgentCreate, rewritten, columns, txn>>
    /\ audit' = audit

\* db.ts:409-419: addHistory 'created', audit('create'), and the return
CreateLog(h) ==
    /\ calls[h].pc = "log" /\ calls[h].op = "createTask"
    /\ history' = history + 1
    /\ calls' = [calls EXCEPT ![h] = Idle("createTask", calls[h].id, "ok")]
    /\ UNCHANGED tasks
    /\ audit' = auditCall(audit)
    /\ RaceFrame

\* the process of a handle ends inside a call: the statements that have run
\* stay committed, as none of them is inside a transaction
Crash(h) ==
    /\ calls[h].pc # "idle"
    /\ calls' = [calls EXCEPT ![h] = Idle(calls[h].op, calls[h].id, "interrupted")]
    /\ UNCHANGED <<tasks, history>>
    /\ audit' = audit
    /\ RaceFrame

\* Each handle creates and starts tasks, one statement at a time, and may be
\* cut short between two statements.
NextCrash ==
    \/ /\ RoomCrash
       /\ Cardinality(Ids) < MaxTasksCrash
       /\ \E h \in Handles, blk \in Ids \cup {NULL} : CreateInsert(h, blk)
    \/ \E h \in Handles : CreateLog(h)
    \/ RoomCrash /\ \E h \in Handles, id \in AnyId : StartRead(h, id)
    \/ \E h \in Handles : StartBlocker(h)
    \/ \E h \in Handles : StartWrite(h)
    \/ \E h \in Handles : calls[h].op = "startTask" /\ StartLog(h)
    \/ \E h \in Handles : Crash(h)

SpecCrash == Init /\ [][NextCrash]_vars

\* C35: the change to the task row and its history entry are committed
\* together, whatever the point at which a call is interrupted: while no call
\* is running, the history holds one entry for each task created and one for
\* each task started (no task of SpecCrash leaves in_progress).
C35_RowAndHistoryTogether ==
    (\A h \in Handles : calls[h].pc = "idle") =>
        history = Cardinality(Ids) + Cardinality({i \in Ids : tasks[i].status = "in_progress"})

(* ========= two handles proposing, step by step: SpecPropose =========== *)

\* a handle of SpecPropose between two agent createTask calls: at is the time
\* the last call was issued
Proposed(result, at) ==
    [pc |-> "idle", op |-> "createTask", id |-> NULL, task |-> <<>>, result |-> result, at |-> at]

\* the handle is inside an agent createTask issued at the time at, about to
\* run the step pc names
InPropose(pc, at) ==
    [pc |-> pc, op |-> "createTask", id |-> NULL, task |-> <<>>, result |-> "none", at |-> at]

InitPropose ==
    /\ tasks = <<>>
    /\ history = 0
    /\ config = [k \in {"schema_version", "heartbeat_lock", "auto_execution_enabled"} |->
                    IF k = "heartbeat_lock" THEN NULL ELSE 1]
    /\ now = 0
    /\ createdAs = <<>>
    /\ confirmedEver = {}
    /\ lastAgentCreate = NULL
    /\ rewritten = {}
    /\ columns = {}
    /\ calls = [h \in Handles |-> Proposed("none", NULL)]
    /\ txn = <<>>
    /\ audit = NewAudit(FALSE)

\* what a step of a proposing handle leaves alone besides tasks, history,
\* config and calls
ProposeFrame == UNCHANGED <<now, createdAs, confirmedEver, lastAgentCreate, rewritten, columns, txn, audit>>

\* the calls that have passed the count check and not yet inserted
InFlight == {h \in Handles : calls[h].pc # "idle"}

\* db.ts:357-362: countProposed() and the test of the cap
ProposeCount(h) ==
    /\ calls[h].pc = "idle"
    /\ calls' = [calls EXCEPT ![h] = IF proposalLimitReached
                                     THEN Proposed("RATE_LIMIT_EXCEEDED", now)
                                     ELSE InPropose("cooldown", now)]
    /\ UNCHANGED <<tasks, history, config>>
    /\ ProposeFrame

\* db.ts:365-374: getConfig('last_agent_proposal') and the test of the cooldown
ProposeCooldown(h) ==
    /\ calls[h].pc = "cooldown"
    /\ calls' = [calls EXCEPT ![h] = IF cooldownActive
                                     THEN Proposed("RATE_LIMIT_EXCEEDED", calls[h].at)
                                     ELSE InPropose("stamp", calls[h].at)]
    /\ UNCHANGED <<tasks, history, config>>
    /\ ProposeFrame

\* db.ts:375: setConfig('last_agent_proposal', Date.now())
ProposeStamp(h) ==
    /\ calls[h].pc = "stamp"
    /\ config' = setConfigIn(config, "last_agent_proposal", now)
    /\ calls' = [calls EXCEPT ![h] = InPropose("insert", calls[h].at)]
    /\ UNCHANGED <<tasks, history>>
    /\ ProposeFrame

\* db.ts:381-419: the INSERT of the proposed row, addHistory 'created' with
\* the note 'Agent proposed task', and the return
ProposeInsert(h) ==
    /\ calls[h].pc = "insert"
    /\ tasks' = retained(tasks @@ (freshId :>
                    [status |-> initialStatus("agent", FALSE), autonomy |-> "collab",
                     addedBy |-> "agent", blockedBy |-> NULL, attempts |-> 0,
                     lastAttemptAt |-> NULL, startedAt |-> NULL, completedAt |-> NULL,
                     notes |-> <<>>, urgency |-> "whenever", dueDate |-> <<>>,
                     createdAt |-> now, project |-> "none", context |-> "none"]))
    /\ history' = history + 1
    /\ calls' = [calls EXCEPT ![h] = Proposed("ok", calls[h].at)]
    /\ createdAs' = createdAs @@ (freshId :> "collab")
    /\ lastAgentCreate' = now
    /\ rewritten' = {}
    /\ UNCHANGED <<config, now, confirmedEver, columns, txn, audit>>

\* Each handle runs agent createTask calls one step at a time, while the
\* clock moves from one cooldown window to the next.
NextPropose ==
    \/ /\ Cardinality(Ids) + Cardinality(InFlight) < MaxTasksPropose
       /\ \E h \in Handles : ProposeCount(h)
    \/ \E h \in Handles : ProposeCooldown(h)
    \/ \E h \in Handles : ProposeStamp(h)
    \/ \E h \in Handles : ProposeInsert(h)
    \/ now < MaxWindowsPropose * CooldownSec /\ Tick(CooldownSec)

SpecPropose == InitPropose /\ [][NextPropose]_vars

\* C38: the rate limiter serializes the proposals of two handles: however
\* the steps of their agent createTask calls interleave, the agent's proposed
\* tasks are never more than 5, and of two calls issued less than 60 seconds
\* apart at most one succeeds.
C38_ProposalsSerialized ==
    /\ countProposed <= ProposedLimit
    /\ \A h1 \in Handles : \A h2 \in Handles \ {h1} :
          ~ /\ calls[h1].pc = "idle" /\ calls[h1].result = "ok"
            /\ calls[h2].pc = "idle" /\ calls[h2].result = "ok"
            /\ calls[h1].at - calls[h2].at < CooldownSec
            /\ calls[h2].at - calls[h1].at < CooldownSec

(* ================= updates of any field: SpecUpdate =================== *)

\* updates that name fields off the allowlist, alone or with a field on it
AnyUpdates ==
    Updates \cup [{"addedBy"} -> AddedBy]
            \cup [{"lastAttemptAt", "createdAt"} -> {now}]
            \cup [{"id"} -> {MalformedId}]
            \cup {[status |-> "archived", attempts |-> 0, addedBy |-> "human"]}

\* A human and the agent create tasks, which fail and are updated: by updates
\* naming any field, of any id.
NextUpdate ==
    \/ /\ history < MaxHistoryUpdate
       /\ Cardinality(Ids) < MaxTasksUpdate
       /\ \E addedBy \in AddedBy : CreateTask("valid", addedBy, Options("auto", NULL))
    \/ history < MaxHistoryUpdate /\ \E id \in Ids : FailTask(id, "reason")
    \/ history < MaxHistoryUpdate /\ \E id \in AnyId, u \in AnyUpdates : UpdateTask(id, u, "human")

SpecUpdate == Init /\ [][NextUpdate]_vars

\* C34: an updateTask that fails changes nothing and writes no history; one
\* that succeeds changes, in the task named only, fields that are named in the
\* update and on the allowlist, and never autonomy, addedBy, attempts or
\* lastAttemptAt or createdAt (id is not a column of the modelled row).
C34_UpdateFrame ==
    \A id \in AnyId, u \in AnyUpdates :
        LET r == updateTask(id, u, "human") IN
        /\ r.err # "ok" => r.tasks = tasks /\ r.config = config /\ r.hist = <<>>
        /\ r.err = "ok" =>
              /\ DOMAIN r.tasks = Ids
              /\ r.config = config
              /\ \A i \in Ids : \A f \in DOMAIN tasks[i] :
                    r.tasks[i][f] # tasks[i][f] =>
                        i = id /\ f \in DOMAIN u /\ snakeKey(f) \in allowedFields
              /\ \A i \in Ids, f \in {"autonomy", "addedBy", "attempts", "lastAttemptAt", "createdAt"} :
                    r.tasks[i][f] = tasks[i][f]

\* a task added by the agent has failed; an update that names its status,
\* attempts and addedBy succeeds and changes the status only, an update with an
\* over-long text and one of a task that does not exist fail
C34_Witness ==
    \E id \in Ids :
        LET r == updateTask(id, [status |-> "archived", attempts |-> 0, addedBy |-> "human"], "human") IN
        /\ tasks[id].attempts > 0
        /\ tasks[id].addedBy = "agent"
        /\ tasks[id].status # "archived"
        /\ r.err = "ok"
        /\ r.tasks[id] = [tasks[id] EXCEPT !.status = "archived"]
        /\ Len(r.hist) = 1
        /\ updateTask(id, "text" :> "too_long", "human").err = "VALIDATION_ERROR"
        /\ updateTask(Cardinality(Ids) + 1, "status" :> "done", "human").err = "TASK_NOT_FOUND"

====
